---------------------------- MODULE Spec2Model ----------------------------
(***************************************************************************)
(* A model of the ETF holdings scraper: the adapter registry of main.py,   *)
(* the seven registered provider adapters (and the unregistered Pacer      *)
(* adapter), the class-level index cache of ISharesScraper and the batch   *)
(* aggregation get_portfolio_holdings.                                     *)
(*                                                                         *)
(* Python strings that the code upper- or lower-cases (tickers, issuer     *)
(* names, link texts) are sequences of one-character strings, so that      *)
(* str.upper() and str.lower() are computed and not assumed.  Column       *)
(* labels and cell texts are TLA+ strings from a finite vocabulary; the    *)
(* string operations the code applies to them (strip, lower, substring     *)
(* test) are tabulated over that vocabulary.  Weights are integers (whole  *)
(* percent); floating-point rounding is outside the model.                 *)
(***************************************************************************)
EXTENDS Integers, Sequences, FiniteSets, TLC

(***************************************************************************)
(* Bounds of the model.                                                    *)
(***************************************************************************)
\* longest portfolio file read by get_portfolio_holdings
MaxRows == 3
\* concurrent callers of the indexed-lookup adapter in ConcSpec
MaxCallers == 2

(***************************************************************************)
(* str.upper / str.lower / str.strip on sequences of characters.           *)
(***************************************************************************)
LowerAlpha == <<"a","b","c","d","e","f","g","h","i","j","k","l","m","n","o","p","q","r","s","t","u","v","w","x","y","z">>
UpperAlpha == <<"A","B","C","D","E","F","G","H","I","J","K","L","M","N","O","P","Q","R","S","T","U","V","W","X","Y","Z">>

Range(f) == { f[i] : i \in DOMAIN f }

upper_char(c) ==
  IF \E i \in DOMAIN LowerAlpha : LowerAlpha[i] = c
    THEN UpperAlpha[CHOOSE i \in DOMAIN LowerAlpha : LowerAlpha[i] = c]
    ELSE c

lower_char(c) ==
  IF \E i \in DOMAIN UpperAlpha : UpperAlpha[i] = c
    THEN LowerAlpha[CHOOSE i \in DOMAIN UpperAlpha : UpperAlpha[i] = c]
    ELSE c

upper(s) == [i \in 1..Len(s) |-> upper_char(s[i])]

lower(s) == [i \in 1..Len(s) |-> lower_char(s[i])]

RECURSIVE lstrip(_)
lstrip(s) == IF s # <<>> /\ Head(s) = " " THEN lstrip(Tail(s)) ELSE s

RECURSIVE rstrip(_)
rstrip(s) ==
  IF s # <<>> /\ s[Len(s)] = " " THEN rstrip(SubSeq(s, 1, Len(s) - 1)) ELSE s

strip(s) == rstrip(lstrip(s))

(***************************************************************************)
(* Static configuration of the adapters.  Keys and known tickers are       *)
(* character sequences because the code compares them with ticker.upper(). *)
(***************************************************************************)
ARK_TICKER_FILENAME_MAP ==
  ( <<"A","R","K","F">> :> "ARK_FINTECH_INNOVATION_ETF_ARKF_HOLDINGS" @@
    <<"A","R","K","G">> :> "ARK_GENOMIC_REVOLUTION_ETF_ARKG_HOLDINGS" @@
    <<"A","R","K","K">> :> "ARK_INNOVATION_ETF_ARKK_HOLDINGS" @@
    <<"A","R","K","Q">> :> "ARK_AUTONOMOUS_TECH._&_ROBOTICS_ETF_ARKQ_HOLDINGS" @@
    <<"A","R","K","W">> :> "ARK_NEXT_GENERATION_INTERNET_ETF_ARKW_HOLDINGS" @@
    <<"A","R","K","X">> :> "ARK_SPACE_EXPLORATION_&_INNOVATION_ETF_ARKX_HOLDINGS" )

VanEck_TICKER_SLUG_MAP ==
  ( <<"A","N","G","L">> :> "fallen-angel-high-yield-bond-etf-angl" @@
    <<"G","D","X">> :> "gold-miners-etf-gdx" @@
    <<"G","D","X","J">> :> "junior-gold-miners-etf-gdxj" @@
    <<"H","Y","D">> :> "high-yield-muni-etf-hyd" @@
    <<"I","T","M">> :> "intermediate-muni-etf-itm" @@
    <<"M","O","A","T">> :> "morningstar-wide-moat-etf-moat" @@
    <<"N","L","R">> :> "uranium-nuclear-energy-etf-nlr" @@
    <<"R","E","M","X">> :> "rare-earth-strategic-metals-etf-remx" @@
    <<"S","M","H">> :> "semiconductor-etf-smh" @@
    <<"V","N","M">> :> "vietnam-etf-vnm" )

FirstTrust_KNOWN_TICKERS ==
  << <<"A","I","R","R">>, <<"C","I","B","R">>, <<"C","L","O","U">>, <<"F","D","N">>, <<"F","P","R","O">>, <<"F","T","E","C">>,
    <<"F","T","X","L">>, <<"L","E","G","R">>, <<"L","M","B","S">>, <<"M","I","L","N">>, <<"S","K","Y","Y">>, <<"W","N","D","Y">> >>

GlobalX_KNOWN_TICKERS ==
  << <<"B","O","T","Z">>, <<"C","L","O","U">>, <<"D","R","I","V">>, <<"F","I","N","X">>, <<"G","N","O","M">>, <<"H","E","R","O">>,
    <<"L","I","T">>, <<"M","I","L","N">>, <<"P","O","T","X">>, <<"S","N","S","R">>, <<"S","O","C","L">>, <<"X","I","T","K">> >>

SSGA_KNOWN_TICKERS ==
  << <<"S","P","Y">>, <<"S","P","L","G">>, <<"S","P","Y","G">>, <<"S","P","Y","V">>, <<"S","P","M","D">>, <<"S","P","M","V">>,
    <<"S","P","Y","D">>, <<"D","I","A">>, <<"M","D","Y">>, <<"S","L","Y">>, <<"X","L","B">>, <<"X","L","C">>,
    <<"X","L","E">>, <<"X","L","F">>, <<"X","L","I">>, <<"X","L","K">>, <<"X","L","P">>, <<"X","L","U">>,
    <<"X","L","V">>, <<"X","L","Y">>, <<"X","L","R","E">>, <<"C","W","I">>, <<"G","W","L">>, <<"G","W","X">>,
    <<"B","I","L">>, <<"B","W","X">>, <<"F","L","R","N">>, <<"J","N","K">>, <<"S","J","N","K">>, <<"S","P","A","B">>,
    <<"S","P","B","O">>, <<"S","P","S","B">>, <<"S","P","I","B">>, <<"S","P","L","B">>, <<"S","P","T","L">>, <<"S","P","T","S">>,
    <<"S","P","T","I">>, <<"G","L","D">>, <<"G","L","D","M">>, <<"I","A","U">>, <<"X","L","R","E">>, <<"R","W","R">>,
    <<"R","W","X">>, <<"K","B","E">>, <<"K","R","E">>, <<"X","A","R">>, <<"X","B","I">>, <<"X","H","B">>,
    <<"X","H","E">>, <<"X","H","S">>, <<"X","M","E">>, <<"X","O","P">>, <<"X","P","H">>, <<"X","R","T">>,
    <<"X","S","D">>, <<"X","S","W">>, <<"X","T","H">>, <<"X","T","L">>, <<"X","T","N">> >>

Pacer_KNOWN_TICKERS ==
  << <<"B","U","F","D">>, <<"B","U","F","R">>, <<"B","U","F","T">>, <<"B","U","F","U">>, <<"C","A","L","F">>, <<"C","O","W","Z">>,
    <<"E","V","N","T">>, <<"I","C","O","W">>, <<"I","D","O","G">>, <<"L","R","G","F">>, <<"P","A","U","G">>, <<"P","F","E","B">>,
    <<"P","J","A","N">>, <<"P","J","U","L">>, <<"P","M","A","R">>, <<"P","M","A","Y">>, <<"P","N","O","V">>, <<"P","O","C","T">>,
    <<"P","S","E","P">>, <<"P","A","P","R">>, <<"P","D","E","C">>, <<"P","J","U","N">>, <<"Q","A","R","P">>, <<"S","R","V","R">>,
    <<"T","R","F","K">>, <<"V","I","R","S">> >>

Invesco_KNOWN_TICKERS ==
  << <<"Q","Q","Q">>, <<"Q","Q","Q","M">>, <<"Q","Q","Q","J">>, <<"Q","Q","Q","A">>, <<"Q","Q","Q","N">>, <<"R","S","P">>,
    <<"S","P","G","P">>, <<"R","C","D">>, <<"R","G","I">>, <<"R","T","M">>, <<"R","Y","E">>, <<"R","Y","F">>,
    <<"R","Y","H">>, <<"R","Y","T">>, <<"R","Y","U">>, <<"P","E","Y">>, <<"P","F","M">>, <<"P","K","W">>,
    <<"S","P","H","D">>, <<"P","R","F">>, <<"P","R","F","Z">>, <<"D","W","A","S">>, <<"O","M","F","L">>, <<"B","S","C","M">>,
    <<"B","S","C","N">>, <<"B","S","C","O">>, <<"B","S","C","P">>, <<"B","S","C","Q">>, <<"B","S","C","R">>, <<"B","S","C","S">>,
    <<"B","S","C","T">>, <<"B","S","C","U">>, <<"P","D","N">>, <<"P","X","H">>, <<"P","I","Z">>, <<"P","I","E">>,
    <<"D","B","C">>, <<"D","B","B">>, <<"D","B","O">>, <<"D","B","P">>, <<"D","B","S">>, <<"P","H","O">>,
    <<"P","B","W">>, <<"P","N","Q","I">>, <<"C","G","W">> >>

SCRAPER_REGISTRY_KEYS ==
  << <<"i","s","h","a","r","e","s">>,
    <<"s","s","g","a">>,
    <<"i","n","v","e","s","c","o">>,
    <<"v","a","n","e","c","k">>,
    <<"f","i","r","s","t","t","r","u","s","t">>,
    <<"a","r","k">>,
    <<"g","l","o","b","a","l","x">> >>

\* the timeouts (seconds) the adapters pass to their fetches
ISharesScraper_TIMEOUT == 90
ISharesScraper_holdings_timeout == 30
ARKScraper_TIMEOUT == 60
VanEckScraper_TIMEOUT == 60
FirstTrustScraper_TIMEOUT == 60
GlobalXScraper_TIMEOUT == 60
SSGAScraper_timeout == 60
PacerScraper_TIMEOUT == 60

\* Retry(total=3, status_forcelist=[429, 500, 502, 503, 504])
Retry_total == 3
Retry_status_forcelist == {429, 500, 502, 503, 504}

\* the threshold and the target of the completeness rule of the batch
FULL_WEIGHT == 100

\* as_of_date: None, the empty string, or a date
NONE == "<None>"

truthy(s) == s \notin {NONE, ""}

(***************************************************************************)
(* Cells of a fetched table: a number, a number followed by a per cent     *)
(* sign ("9%"), a text, or a missing value (NaN).  PaddedPct is the same   *)
(* with blanks around the number and the sign ("  7 % "); QTxt is a text   *)
(* whose raw line carries it between double quotes.                        *)
(***************************************************************************)
Num(n) == [k |-> "num", n |-> n, s |-> ""]
Pct(n) == [k |-> "pct", n |-> n, s |-> ""]
PaddedPct(n) == [k |-> "pct", n |-> n, s |-> " "]
Txt(s) == [k |-> "str", n |-> 0, s |-> s]
QTxt(s) == [k |-> "str", n |-> 1, s |-> s]
NaN == [k |-> "nan", n |-> 0, s |-> ""]

\* the texts pandas reads as a missing value (keep_default_na)
NA_VALUES == {"", "N/A", "NA", "n/a", "nan", "NaN", "NULL", "null"}

\* a data field as pd.read_csv / pd.read_excel hand it over: quotes are
\* removed and a text of NA_VALUES becomes NaN
read_cell(c) ==
  IF c.k # "str" THEN c ELSE IF c.s \in NA_VALUES THEN NaN ELSE Txt(c.s)

\* str(v) of a header cell: the label of the column it heads
label_of(c) == IF c.k = "str" THEN c.s ELSE IF c.k = "nan" THEN "nan" ELSE "<number>"

(***************************************************************************)
(* String operations on labels, tabulated over the vocabulary of the       *)
(* fetched documents.                                                      *)
(***************************************************************************)
\* str.strip(): the labels of the vocabulary that carry surrounding blanks
strip_label(l) ==
  CASE l = " Weightings " -> "Weightings"
    [] l = " weight (%)" -> "weight (%)"
    [] l = "Weight " -> "Weight"
    [] OTHER -> l

\* str.lower()
lower_label(l) ==
  CASE l = "Ticker" -> "ticker"
    [] l = "Name" -> "name"
    [] l = "Weight" -> "weight"
    [] l = "Weight (%)" -> "weight (%)"
    [] l = "% of Net Assets" -> "% of net assets"
    [] l = "Identifier" -> "identifier"
    [] l = "Weighting" -> "weighting"
    [] l = "StockTicker" -> "stockticker"
    [] l = "Weightings" -> "weightings"
    [] l = "Security Name" -> "security name"
    [] l = "Holding" -> "holding"
    [] l = "ETF Ticker" -> "etf ticker"
    [] l = "Fund Name: Example ETF" -> "fund name: example etf"
    [] l = "The content" -> "the content"
    [] OTHER -> l

\* the tokens the code searches for that occur inside a label, besides the
\* label itself
tokens_in(l) ==
  CASE l = "Weight (%)" -> {"Weight"}
    [] l = "Weight " -> {"Weight"}
    [] l = "Weighting" -> {"Weight"}
    [] l = "Weightings" -> {"Weight"}
    [] l = " Weightings " -> {"Weight", "Weightings"}
    [] l = "weight (%)" -> {"weight"}
    [] l = " weight (%)" -> {"weight", "weight (%)"}
    [] l = "weighting" -> {"weight"}
    [] l = "weightings" -> {"weight"}
    [] l = "% of net assets" -> {"net assets"}
    [] l = "% of Net Assets" -> {"Net Assets"}
    [] l = "StockTicker" -> {"Ticker"}
    [] l = "stockticker" -> {"ticker"}
    [] l = "Security Name" -> {"Name"}
    [] l = "security name" -> {"name"}
    [] l = "Fund Name: Example ETF" -> {"Name"}
    [] l = "fund name: example etf" -> {"name"}
    [] OTHER -> {}

\* the Python test  token in label
contains(l, token) == l = token \/ token \in tokens_in(l)

(***************************************************************************)
(* pandas DataFrame: ordered column labels and ordered rows of values.     *)
(* Labels of one frame are taken to be pairwise distinct.                  *)
(***************************************************************************)
DataFrame(columns, rows) == [columns |-> columns, rows |-> rows]

EmptyFrame == DataFrame(<<>>, <<>>)

has_col(df, name) == \E j \in DOMAIN df.columns : df.columns[j] = name

col_index(df, name) ==
  CHOOSE j \in DOMAIN df.columns :
    /\ df.columns[j] = name
    /\ \A i \in DOMAIN df.columns : df.columns[i] = name => j <= i

\* a row shorter than the header is padded with NaN
cell(row, j) == IF j <= Len(row) THEN row[j] ELSE NaN

\* pd.read_csv / pd.read_excel(header=...): the first row heads the columns,
\* blank rows are skipped
read_table(lines) ==
  LET body == SelectSeq(lines, LAMBDA r : r # <<>>) IN
  DataFrame([j \in 1..Len(body[1]) |-> label_of(body[1][j])],
            [i \in 1..(Len(body) - 1) |->
               [j \in 1..Len(body[1]) |-> read_cell(cell(body[i + 1], j))]])

\* pandas raises EmptyDataError when there is no line to take the header from
no_columns(lines) == \A i \in DOMAIN lines : lines[i] = <<>>

\* df.columns = df.columns.str.strip()
strip_columns(df) ==
  [df EXCEPT !.columns = [j \in DOMAIN @ |-> strip_label(@[j])]]

\* df.dropna(how='all')
dropna_all(df) ==
  [df EXCEPT !.rows = SelectSeq(@, LAMBDA r : \E j \in DOMAIN r : r[j].k # "nan")]

\* df.rename(columns={old: new}); a label that is absent is left alone
rename(df, old, new) ==
  [df EXCEPT !.columns = [j \in DOMAIN @ |-> IF @[j] = old THEN new ELSE @[j]]]

\* df[name] = value
set_column(df, name, value) ==
  IF has_col(df, name)
    THEN [df EXCEPT !.rows =
            [i \in DOMAIN @ |-> [@[i] EXCEPT ![col_index(df, name)] = value]]]
    ELSE DataFrame(Append(df.columns, name),
                   [i \in DOMAIN df.rows |-> Append(df.rows[i], value)])

\* df[[names]], defined when every name is a column
select(df, names) ==
  DataFrame(names,
            [i \in DOMAIN df.rows |->
               [j \in DOMAIN names |-> df.rows[i][col_index(df, names[j])]]])

\* series.astype(str).str.replace('%', '').str.strip() on one cell
strip_percent(c) == IF c.k = "pct" THEN Num(c.n) ELSE c

\* pd.to_numeric(series, errors='coerce').notna() on one cell
is_numeric(c) == c.k = "num"

\* keep the rows whose cell under column name is numeric, after f
numeric_rows(df, name, f(_)) ==
  LET j == col_index(df, name) IN
  [df EXCEPT !.rows =
     SelectSeq([i \in DOMAIN @ |-> [@[i] EXCEPT ![j] = f(@)]],
               LAMBDA r : is_numeric(r[j]))]

identity(c) == c

\* next(c for c in df.columns if pred(c)), "" for None
first_column(df, pred(_)) ==
  IF \E j \in DOMAIN df.columns : pred(df.columns[j])
    THEN df.columns[CHOOSE j \in DOMAIN df.columns :
                      /\ pred(df.columns[j])
                      /\ \A i \in DOMAIN df.columns : pred(df.columns[i]) => j <= i]
    ELSE ""

OUTPUT_COLUMNS == <<"ETF Ticker", "Holding", "Weight">>

(***************************************************************************)
(* The outcome of a call: a frame, or the exception raised (its class and  *)
(* the place that raised it).                                              *)
(***************************************************************************)
Returned(df) == [ok |-> TRUE, df |-> df, exc |-> "", site |-> "", detail |-> <<>>]

Raised(exc, site, detail) ==
  [ok |-> FALSE, df |-> EmptyFrame, exc |-> exc, site |-> site, detail |-> detail]

NoResult == Raised("", "", <<>>)

(***************************************************************************)
(* Requests and responses.  A request names the URL template, what was     *)
(* substituted into it, the timeout passed and the client used.  A status  *)
(* of 0 stands for a request that raised (no connection, timed out).       *)
(***************************************************************************)
Request(url, ticker, id, slug, as_of, timeout, via) ==
  [url |-> url, ticker |-> ticker, id |-> id, slug |-> slug, as_of |-> as_of,
   timeout |-> timeout, via |-> via, attempts |-> 1]

Response(status, ctype, lines, tables, links, text) ==
  [status |-> status, ctype |-> ctype, lines |-> lines, tables |-> tables,
   links |-> links, text |-> text]

NETWORK_ERROR == Response(0, "", <<>>, <<>>, <<>>, <<>>)

Status(code) == Response(code, "text/html", <<>>, <<>>, <<>>, <<>>)

\* response.raise_for_status()
raises_for_status(r) == r.status >= 400

\* what a plain requests.get that does not return raises
transport_error(r) ==
  IF r.status = 0
    THEN Raised("ConnectionError", "requests.get", <<>>)
    ELSE Raised("HTTPError", "raise_for_status", <<>>)

(***************************************************************************)
(* Helpers shared by the format parsers.                                   *)
(***************************************************************************)
\* the test  token in line  on a line of delimited text
line_contains(line, token) ==
  \E j \in DOMAIN line : line[j].k = "str" /\ contains(line[j].s, token)

\* [str(v).strip() for v in row.values if pd.notna(v)] of a spreadsheet row
row_values(row) ==
  { strip_label(label_of(row[j])) : j \in { i \in DOMAIN row : row[i].k # "nan" } }

\* the first index from `from` on whose line satisfies P, else `default`
first_line(lines, from, P(_), default) ==
  IF \E i \in from..Len(lines) : P(lines[i])
    THEN CHOOSE i \in from..Len(lines) :
           P(lines[i]) /\ \A h \in from..Len(lines) : P(lines[h]) => i <= h
    ELSE default

\* sorted(...) of a set of upper-case tickers
rank(c) ==
  IF \E i \in DOMAIN UpperAlpha : UpperAlpha[i] = c
    THEN CHOOSE i \in DOMAIN UpperAlpha : UpperAlpha[i] = c
    ELSE 0

RECURSIVE str_le(_, _)
str_le(a, b) ==
  IF a = <<>> THEN TRUE
  ELSE IF b = <<>> THEN FALSE
  ELSE IF rank(Head(a)) # rank(Head(b)) THEN rank(Head(a)) < rank(Head(b))
  ELSE str_le(Tail(a), Tail(b))

RECURSIVE sorted(_)
sorted(S) ==
  IF S = {} THEN <<>>
  ELSE LET m == CHOOSE x \in S : \A y \in S : str_le(x, y)
       IN <<m>> \o sorted(S \ {m})

\* the final lines without the selection of the three columns
tag_without_select(df, ticker) == Returned(set_column(df, "ETF Ticker", ticker))

\* the final lines of every get_holdings: df['ETF Ticker'] = ticker and
\* df[['ETF Ticker', 'Holding', 'Weight']], which raises KeyError when a
\* column is missing
tag_and_select(df, ticker) ==
  LET tagged == set_column(df, "ETF Ticker", ticker) IN
  IF \A j \in DOMAIN OUTPUT_COLUMNS : has_col(tagged, OUTPUT_COLUMNS[j])
    THEN Returned(select(tagged, OUTPUT_COLUMNS))
    ELSE Raised("KeyError", "df[['ETF Ticker', 'Holding', 'Weight']]", <<>>)

\* what a get_holdings call did: the requests it issued and its outcome
Outcome(fetches, result) == [fetches |-> fetches, result |-> result]

(***************************************************************************)
(* ISharesScraper: the class-level index cache and session.                *)
(***************************************************************************)
ClassState(etf_index, index_loaded, session) ==
  [etf_index |-> etf_index, index_loaded |-> index_loaded, session |-> session]

\* _etf_index = {}, _index_loaded = False, _session = None
InitialClassState == ClassState(<<>>, FALSE, "None")

\* cls._session is created on first use and kept
_get_session(cls) ==
  IF cls.session = "None" THEN [cls EXCEPT !.session = "Session+Retry"] ELSE cls

\* a session whose force list has grown to every failing status
RECURSIVE session_get_any_failure(_, _, _)
session_get_any_failure(attempts, i, total) ==
  LET r == attempts[i] IN
  IF r.status = 0 \/ r.status >= 400
    THEN IF total - 1 < 0
           THEN [raised |-> TRUE, n |-> i, response |-> r,
                 exc |-> IF r.status = 0 THEN "ConnectionError" ELSE "RetryError"]
           ELSE session_get_any_failure(attempts, i + 1, total - 1)
    ELSE [raised |-> FALSE, n |-> i, response |-> r, exc |-> ""]

\* session.get through HTTPAdapter(max_retries=Retry(total=3, ...)): an attempt
\* that fails to connect or answers a status of the force list is repeated
\* while retries are left
RECURSIVE session_get(_, _, _)
session_get(attempts, i, total) ==
  LET r == attempts[i] IN
  IF r.status = 0 \/ r.status \in Retry_status_forcelist
    THEN IF total - 1 < 0
           THEN [raised |-> TRUE, n |-> i, response |-> r,
                 exc |-> IF r.status = 0 THEN "ConnectionError" ELSE "RetryError"]
           ELSE session_get(attempts, i + 1, total - 1)
    ELSE [raised |-> FALSE, n |-> i, response |-> r, exc |-> ""]

\* product_pattern.search(href) for re.compile(r'/us/products/(\d+)/([a-z0-9-]+)')
product_pattern_search(href) ==
  CASE href = "/us/products/239726/ishares-core-sp-500-etf" ->
         [matched |-> TRUE, product_id |-> "239726", slug |-> "ishares-core-sp-500-etf"]
    [] href = "/us/products/239458/ishares-core-total-us-bond-market-etf" ->
         [matched |-> TRUE, product_id |-> "239458",
          slug |-> "ishares-core-total-us-bond-market-etf"]
    [] href = "/us/products/244049/ishares-core-msci-eafe-etf" ->
         [matched |-> TRUE, product_id |-> "244049", slug |-> "ishares-core-msci-eafe-etf"]
    [] href = "/us/products/333011/ishares-bitcoin-trust-etf" ->
         [matched |-> TRUE, product_id |-> "333011", slug |-> "ishares-bitcoin-trust-etf"]
    [] OTHER -> [matched |-> FALSE, product_id |-> "", slug |-> ""]

\* re.match(r'^[A-Z]{1,5}$', ticker_text)
looks_like_ticker(text) ==
  /\ Len(text) \in 1..5
  /\ \A i \in DOMAIN text : text[i] \in Range(UpperAlpha)

\* the body of the loop over soup.find_all('a', href=product_pattern)
store_link(etf_index, link) ==
  LET m == product_pattern_search(link.href)
      ticker_text == upper(strip(link.text))
  IN IF m.matched /\ ticker_text # <<>> /\ looks_like_ticker(ticker_text)
       THEN (ticker_text :> [product_id |-> m.product_id, slug |-> m.slug]) @@ etf_index
       ELSE etf_index

RECURSIVE index_links(_, _)
index_links(etf_index, links) ==
  IF links = <<>> THEN etf_index
  ELSE index_links(store_link(etf_index, Head(links)), Tail(links))

LISTING_REQUEST(n) ==
  [Request("ISharesScraper.PRODUCT_LISTING_URL", <<>>, "", "", NONE,
           ISharesScraper_TIMEOUT, "session") EXCEPT !.attempts = n]

\* a load that sets the flag before it fetches the listing
load_etf_index_flag_first(c1, got, req) ==
  IF got.raised
    THEN [cls |-> [c1 EXCEPT !.index_loaded = TRUE], fetches |-> <<req>>,
          result |-> Raised(got.exc, "session.get", <<>>)]
  ELSE IF raises_for_status(got.response)
    THEN [cls |-> [c1 EXCEPT !.index_loaded = TRUE], fetches |-> <<req>>,
          result |-> Raised("HTTPError", "raise_for_status", <<>>)]
  ELSE [cls |-> [c1 EXCEPT !.etf_index = index_links(@, got.response.links),
                           !.index_loaded = TRUE],
        fetches |-> <<req>>, result |-> Returned(EmptyFrame)]

\* the body of _fetch_etf_index below its first test: fetch the listing, fill
\* the index from its links, and only then set the flag
load_etf_index(c1, got, req) ==
  IF got.raised
    THEN [cls |-> c1, fetches |-> <<req>>, result |-> Raised(got.exc, "session.get", <<>>)]
  ELSE IF raises_for_status(got.response)
    THEN [cls |-> c1, fetches |-> <<req>>,
          result |-> Raised("HTTPError", "raise_for_status", <<>>)]
  ELSE [cls |-> [c1 EXCEPT !.etf_index = index_links(@, got.response.links),
                           !.index_loaded = TRUE],
        fetches |-> <<req>>, result |-> Returned(EmptyFrame)]

fetch_and_load(cls, got) == load_etf_index(_get_session(cls), got, LISTING_REQUEST(got.n))

\* a _fetch_etf_index that has lost its test of the flag
_fetch_etf_index_refetching(cls, listing) ==
  fetch_and_load(cls, session_get(listing, 1, Retry_total))

\* _fetch_etf_index: nothing when loaded, else the load
_fetch_etf_index(cls, listing) ==
  IF cls.index_loaded
    THEN [cls |-> cls, fetches |-> <<>>, result |-> Returned(EmptyFrame)]
    ELSE fetch_and_load(cls, session_get(listing, 1, Retry_total))

ticker_not_found(f) ==
  [f EXCEPT !.result =
     Raised("ValueError", "ISharesScraper: ticker not found in iShares ETF index", <<>>)]

looked_up(f, ticker) ==
  IF ~f.result.ok THEN f
  ELSE IF ticker \notin DOMAIN f.cls.etf_index THEN ticker_not_found(f)
  ELSE f

\* a _lookup_etf_info that swallows a failed load and looks the ticker up in
\* whatever the index holds
looked_up_anyway(f, ticker) ==
  IF ticker \notin DOMAIN f.cls.etf_index THEN ticker_not_found(f) ELSE f

_lookup_etf_info_swallowing(cls, ticker, listing) ==
  looked_up_anyway(_fetch_etf_index(cls, listing), ticker)

\* _lookup_etf_info: load the index if needed, then look the ticker up
_lookup_etf_info(cls, ticker, listing) ==
  looked_up(_fetch_etf_index(cls, listing), ticker)

\* get_supported_tickers: sorted(_etf_index.keys()) after loading
ISharesScraper_get_supported_tickers(cls, listing) ==
  LET f == _fetch_etf_index(cls, listing) IN
  [cls |-> f.cls, fetches |-> f.fetches, result |-> f.result,
   tickers |-> IF f.result.ok THEN sorted(DOMAIN f.cls.etf_index) ELSE <<>>]

\* the header test and the end-of-data test of ISharesScraper.get_holdings
ishares_is_header(line) ==
  line_contains(line, "Ticker") /\ line_contains(line, "Name")
    /\ line_contains(line, "Weight")

\* not lines[i].strip() or lines[i].startswith('"The content')
ishares_is_end(line) ==
  line = <<>> \/ (line[1].k = "str" /\ line[1].n = 1 /\ line[1].s = "The content")

\* the parsing half of ISharesScraper.get_holdings
ishares_parse(lines, ticker) ==
  LET data_start == first_line(lines, 1, ishares_is_header, 1)
      data_end == first_line(lines, data_start + 1, ishares_is_end, Len(lines) + 1)
      csv_data == SubSeq(lines, data_start, data_end - 1)
  IN IF no_columns(csv_data)
       THEN Raised("EmptyDataError", "pd.read_csv", <<>>)
       ELSE tag_and_select(
              rename(rename(strip_columns(read_table(csv_data)),
                            "Weight (%)", "Weight"), "Ticker", "Holding"),
              ticker)

HOLDINGS_REQUEST(info, ticker, as_of_date) ==
  Request("https://www.ishares.com/us/products/{product_id}/{slug}/1467271812596.ajax",
          ticker, info.product_id, info.slug,
          IF truthy(as_of_date) THEN as_of_date ELSE NONE,
          ISharesScraper_holdings_timeout, "requests")

\* get_holdings once the ticker is upper-cased
ishares_holdings(cls, ticker, as_of_date, listing, doc) ==
  LET f == _lookup_etf_info(cls, ticker, listing) IN
  IF ~f.result.ok THEN f
  ELSE
    LET req == HOLDINGS_REQUEST(f.cls.etf_index[ticker], ticker, as_of_date)
        fetches == Append(f.fetches, req)
    IN [cls |-> f.cls, fetches |-> fetches,
        result |-> IF doc.status = 0 \/ raises_for_status(doc)
                     THEN transport_error(doc)
                     ELSE ishares_parse(doc.lines, ticker)]

\* a get_holdings that has lost ticker = ticker.upper()
ISharesScraper_get_holdings_as_given(cls, ticker, as_of_date, listing, doc) ==
  ishares_holdings(cls, ticker, as_of_date, listing, doc)

ISharesScraper_get_holdings(cls, ticker, as_of_date, listing, doc) ==
  ishares_holdings(cls, upper(ticker), as_of_date, listing, doc)

(***************************************************************************)
(* ARKScraper: static ticker -> filename map, one CSV fetch.               *)
(***************************************************************************)
ARKScraper_get_supported_tickers == sorted(DOMAIN ARK_TICKER_FILENAME_MAP)

ark_parse(lines, ticker) ==
  IF no_columns(lines) THEN Raised("EmptyDataError", "pd.read_csv", <<>>)
  ELSE
    LET df == strip_columns(read_table(lines)) IN
    IF ~has_col(df, "weight (%)") THEN Raised("KeyError", "df['weight (%)']", <<>>)
    ELSE tag_and_select(
           rename(rename(numeric_rows(df, "weight (%)", strip_percent),
                         "ticker", "Holding"), "weight (%)", "Weight"),
           ticker)

ark_answer(doc, ticker) ==
  IF doc.status = 0 THEN transport_error(doc)
  ELSE IF doc.status = 404
    THEN Raised("ValueError", "ARKScraper: holdings CSV not found (404)", <<>>)
  ELSE IF raises_for_status(doc) THEN transport_error(doc)
  ELSE ark_parse(doc.lines, ticker)

ARK_REQUEST(filename) ==
  Request("ARKScraper.BASE_URL", <<>>, filename, "", NONE, ARKScraper_TIMEOUT, "requests")

\* a get_holdings that takes the file name from the ticker when the map has
\* none, and reports a missing file as an unknown ticker
ark_holdings_guessing(ticker, doc) ==
  IF ticker \in DOMAIN ARK_TICKER_FILENAME_MAP
    THEN Outcome(<<ARK_REQUEST(ARK_TICKER_FILENAME_MAP[ticker])>>, ark_answer(doc, ticker))
  ELSE IF doc.status = 404
    THEN Outcome(<<ARK_REQUEST("{ticker}")>>,
                 Raised("ValueError", "ARKScraper: ticker not in TICKER_FILENAME_MAP",
                        ARKScraper_get_supported_tickers))
  ELSE Outcome(<<ARK_REQUEST("{ticker}")>>, ark_answer(doc, ticker))

\* get_holdings once the ticker is upper-cased
ark_holdings(ticker, doc) ==
  IF ticker \notin DOMAIN ARK_TICKER_FILENAME_MAP
    THEN Outcome(<<>>, Raised("ValueError", "ARKScraper: ticker not in TICKER_FILENAME_MAP",
                              ARKScraper_get_supported_tickers))
    ELSE Outcome(<<ARK_REQUEST(ARK_TICKER_FILENAME_MAP[ticker])>>, ark_answer(doc, ticker))

ARKScraper_get_holdings(ticker, as_of_date, doc) == ark_holdings(upper(ticker), doc)

(***************************************************************************)
(* VanEckScraper: static ticker -> slug map, one fetch answered by a       *)
(* spreadsheet or by delimited text.                                       *)
(***************************************************************************)
VanEckScraper_get_supported_tickers == sorted(DOMAIN VanEck_TICKER_SLUG_MAP)

vaneck_is_weight_label(c) ==
  contains(lower_label(c), "weight") \/ contains(lower_label(c), "net assets")

vaneck_is_ticker_label(c) == lower_label(strip_label(c)) = "ticker"

vaneck_is_name_label(c) == contains(lower_label(c), "name")

\* _normalise
_normalise(df0, ticker) ==
  LET df == dropna_all(strip_columns(df0))
      weight_col == first_column(df, vaneck_is_weight_label)
  IN IF weight_col = ""
       THEN Raised("ValueError", "VanEckScraper: could not find weight column", <<>>)
     ELSE
       LET kept == numeric_rows(df, weight_col, strip_percent)
           by_ticker == first_column(kept, vaneck_is_ticker_label)
           holding_col == IF by_ticker # "" THEN by_ticker
                          ELSE first_column(kept, vaneck_is_name_label)
       IN IF holding_col = ""
            THEN Raised("ValueError", "VanEckScraper: could not find ticker/name column",
                        <<>>)
            ELSE tag_and_select(
                   rename(rename(kept, weight_col, "Weight"), holding_col, "Holding"),
                   ticker)

vaneck_excel_is_header(row) ==
  /\ ("Ticker" \in row_values(row) \/ "Name" \in row_values(row))
  /\ \E v \in row_values(row) : vaneck_is_weight_label(v)

\* _parse_excel
_parse_excel(content, ticker) ==
  LET header_row == first_line(content, 1, vaneck_excel_is_header, 1) IN
  IF content = <<>> THEN Raised("ValueError", "pd.read_excel", <<>>)
  ELSE _normalise(read_table(SubSeq(content, header_row, Len(content))), ticker)

vaneck_csv_is_header(line) ==
  /\ (line_contains(line, "Ticker") \/ line_contains(line, "Name"))
  /\ line_contains(line, "Weight")

vaneck_is_blank(line) == line = <<>>

\* _parse_csv
_parse_csv(lines, ticker) ==
  LET data_start == first_line(lines, 1, vaneck_csv_is_header, 1)
      data_end == first_line(lines, data_start + 1, vaneck_is_blank, Len(lines) + 1)
      csv_data == SubSeq(lines, data_start, data_end - 1)
  IN IF no_columns(csv_data) THEN Raised("EmptyDataError", "pd.read_csv", <<>>)
     ELSE _normalise(read_table(csv_data), ticker)

is_spreadsheet(content_type) ==
  content_type \in {"application/vnd.openxmlformats-officedocument.spreadsheetml.sheet",
                    "application/vnd.ms-excel"}

\* get_holdings once the ticker is upper-cased
vaneck_holdings(ticker, doc) ==
  IF ticker \notin DOMAIN VanEck_TICKER_SLUG_MAP
    THEN Outcome(<<>>, Raised("ValueError", "VanEckScraper: ticker not in TICKER_SLUG_MAP",
                              VanEckScraper_get_supported_tickers))
    ELSE
      LET req == Request("VanEckScraper.HOLDINGS_URL_TEMPLATE", <<>>, "",
                         VanEck_TICKER_SLUG_MAP[ticker], NONE, VanEckScraper_TIMEOUT,
                         "requests")
      IN Outcome(<<req>>,
           IF doc.status = 0 THEN transport_error(doc)
           ELSE IF doc.status = 404
             THEN Raised("ValueError", "VanEckScraper: holdings data not found (404)", <<>>)
           ELSE IF raises_for_status(doc) THEN transport_error(doc)
           ELSE IF is_spreadsheet(doc.ctype) THEN _parse_excel(doc.lines, ticker)
           ELSE _parse_csv(doc.lines, ticker))

VanEckScraper_get_holdings(ticker, as_of_date, doc) == vaneck_holdings(upper(ticker), doc)

(***************************************************************************)
(* FirstTrustScraper: one page, the holdings table found among its tables. *)
(***************************************************************************)
FirstTrustScraper_get_supported_tickers == sorted(Range(FirstTrust_KNOWN_TICKERS))

\* td.get_text(strip=True) of the cells of a row
cell_texts(row) == [j \in DOMAIN row |-> strip_label(label_of(row[j]))]

firsttrust_is_target(table) ==
  /\ table # <<>>
  /\ "Identifier" \in Range(cell_texts(table[1]))
  /\ "Weighting" \in Range(cell_texts(table[1]))

firsttrust_parse(tables, ticker) ==
  IF ~\E t \in DOMAIN tables : firsttrust_is_target(tables[t])
    THEN Raised("ValueError", "FirstTrustScraper: could not find holdings table", <<>>)
    ELSE
      LET target_table == tables[first_line(tables, 1, firsttrust_is_target, 1)]
          headers == cell_texts(target_table[1])
          rows == SelectSeq(Tail(target_table), LAMBDA r : r # <<>>)
      IN IF (\E i \in DOMAIN rows : Len(rows[i]) > Len(headers))
              \/ (rows # <<>> /\ \A h \in DOMAIN rows : Len(rows[h]) < Len(headers))
           THEN Raised("ValueError", "pd.DataFrame(rows, columns=headers)", <<>>)
           ELSE
             LET df == DataFrame(headers,
                         [i \in DOMAIN rows |->
                            [j \in DOMAIN headers |-> cell(rows[i], j)]])
             IN tag_and_select(
                  rename(rename(numeric_rows(df, "Weighting", strip_percent),
                                "Identifier", "Holding"), "Weighting", "Weight"),
                  ticker)

\* get_holdings once the ticker is upper-cased
firsttrust_holdings(ticker, doc) ==
  LET req == Request("FirstTrustScraper.HOLDINGS_URL_TEMPLATE", ticker, "", "", NONE,
                     FirstTrustScraper_TIMEOUT, "requests")
  IN Outcome(<<req>>,
       IF doc.status = 0 \/ raises_for_status(doc) THEN transport_error(doc)
       ELSE firsttrust_parse(doc.tables, ticker))

FirstTrustScraper_get_holdings(ticker, as_of_date, doc) ==
  firsttrust_holdings(upper(ticker), doc)

(***************************************************************************)
(* GlobalXScraper: the fund page, then the dated CSV it links to.          *)
(***************************************************************************)
GlobalXScraper_get_supported_tickers == sorted(Range(GlobalX_KNOWN_TICKERS))

\* HOLDINGS_LINK_PATTERN matched against one URL of the page text
HOLDINGS_LINK_PATTERN_matches(u) ==
  u \in {"https://assets.globalxetfs.com/funds/holdings/botz_full-holdings_20240102.csv",
         "https://assets.globalxetfs.com/funds/holdings/botz_full-holdings_20231229.csv"}

\* a search that keeps the last match of the page
HOLDINGS_LINK_PATTERN_search_last(text) ==
  IF \E i \in DOMAIN text : HOLDINGS_LINK_PATTERN_matches(text[i])
    THEN text[CHOOSE i \in DOMAIN text :
                /\ HOLDINGS_LINK_PATTERN_matches(text[i])
                /\ \A h \in DOMAIN text : HOLDINGS_LINK_PATTERN_matches(text[h]) => h <= i]
    ELSE ""

\* HOLDINGS_LINK_PATTERN.search(page.text): the first match, "" for None
HOLDINGS_LINK_PATTERN_search(text) ==
  IF \E i \in DOMAIN text : HOLDINGS_LINK_PATTERN_matches(text[i])
    THEN text[CHOOSE i \in DOMAIN text :
                /\ HOLDINGS_LINK_PATTERN_matches(text[i])
                /\ \A h \in DOMAIN text : HOLDINGS_LINK_PATTERN_matches(text[h]) => i <= h]
    ELSE ""

GLOBALX_SKIPROWS == 2

globalx_is_weight_label(c) == contains(lower_label(c), "net assets")

globalx_parse(lines, ticker) ==
  LET csv_data == SubSeq(lines, GLOBALX_SKIPROWS + 1, Len(lines)) IN
  IF no_columns(csv_data) THEN Raised("EmptyDataError", "pd.read_csv", <<>>)
  ELSE
    LET df == strip_columns(read_table(csv_data))
        weight_col == first_column(df, globalx_is_weight_label)
    IN IF weight_col = ""
         THEN Raised("ValueError", "GlobalXScraper: could not find weight column", <<>>)
         ELSE tag_and_select(
                rename(rename(numeric_rows(df, weight_col, identity),
                              weight_col, "Weight"), "Ticker", "Holding"),
                ticker)

\* get_holdings once the ticker is upper-cased
globalx_holdings(ticker, page, doc) ==
  LET fund_req == Request("GlobalXScraper.FUND_PAGE_URL", ticker, "", "", NONE,
                          GlobalXScraper_TIMEOUT, "requests")
      csv_url == HOLDINGS_LINK_PATTERN_search(page.text)
      csv_req == Request("csv_url", <<>>, csv_url, "", NONE, GlobalXScraper_TIMEOUT,
                         "requests")
  IN IF page.status = 0 THEN Outcome(<<fund_req>>, transport_error(page))
     ELSE IF page.status = 404
       THEN Outcome(<<fund_req>>,
                    Raised("ValueError", "GlobalXScraper: fund page not found (404)", <<>>))
     ELSE IF raises_for_status(page) THEN Outcome(<<fund_req>>, transport_error(page))
     ELSE IF csv_url = ""
       THEN Outcome(<<fund_req>>,
                    Raised("ValueError", "GlobalXScraper: could not find holdings CSV link",
                           <<>>))
     ELSE Outcome(<<fund_req, csv_req>>,
            IF doc.status = 0 \/ raises_for_status(doc) THEN transport_error(doc)
            ELSE globalx_parse(doc.lines, ticker))

GlobalXScraper_get_holdings(ticker, as_of_date, page, doc) ==
  globalx_holdings(upper(ticker), page, doc)

(***************************************************************************)
(* SSGAScraper: one spreadsheet fetch.                                     *)
(***************************************************************************)
SSGAScraper_get_supported_tickers == sorted(Range(SSGA_KNOWN_TICKERS))

ssga_is_header(row) == "Name" \in row_values(row) /\ "Weight" \in row_values(row)

ssga_is_weight_label(c) == contains(lower_label(c), "weight")

ssga_parse(doc, ticker) ==
  IF ~is_spreadsheet(doc.ctype) \/ doc.lines = <<>>
    THEN Raised("ValueError", "pd.read_excel", <<>>)
    ELSE
      LET header_row == first_line(doc.lines, 1, ssga_is_header, 1)
          df == dropna_all(strip_columns(
                  read_table(SubSeq(doc.lines, header_row, Len(doc.lines)))))
          weight_col == first_column(df, ssga_is_weight_label)
      IN IF weight_col = ""
           THEN Raised("ValueError", "SSGAScraper: could not find a weight column", <<>>)
           ELSE tag_and_select(
                  rename(rename(numeric_rows(df, weight_col, identity),
                                weight_col, "Weight"), "Ticker", "Holding"),
                  ticker)

\* get_holdings once the ticker is upper-cased
ssga_holdings(ticker, doc) ==
  LET req == Request("SSGAScraper.HOLDINGS_URL_TEMPLATE", lower(ticker), "", "", NONE,
                     SSGAScraper_timeout, "requests")
  IN Outcome(<<req>>,
       IF doc.status = 0 THEN transport_error(doc)
       ELSE IF doc.status = 404
         THEN Raised("ValueError", "SSGAScraper: ticker not found (404)", <<>>)
       ELSE IF raises_for_status(doc) THEN transport_error(doc)
       ELSE ssga_parse(doc, ticker))

\* a get_holdings that asks for the snapshot of the date it is given
SSGAScraper_get_holdings_dated(ticker, as_of_date, doc) ==
  LET o == ssga_holdings(upper(ticker), doc)
  IN [o EXCEPT !.fetches[1].as_of = IF truthy(as_of_date) THEN as_of_date ELSE NONE]

SSGAScraper_get_holdings(ticker, as_of_date, doc) == ssga_holdings(upper(ticker), doc)

(***************************************************************************)
(* PacerScraper: one CSV fetch.  The adapter is not in the registry.       *)
(***************************************************************************)
PacerScraper_get_supported_tickers == sorted(Range(Pacer_KNOWN_TICKERS))

pacer_parse(lines, ticker) ==
  IF no_columns(lines) THEN Raised("EmptyDataError", "pd.read_csv", <<>>)
  ELSE
    LET df == strip_columns(read_table(lines)) IN
    IF ~has_col(df, "Weightings") THEN Raised("KeyError", "df['Weightings']", <<>>)
    ELSE tag_and_select(
           rename(rename(numeric_rows(df, "Weightings", strip_percent),
                         "StockTicker", "Holding"), "Weightings", "Weight"),
           ticker)

\* get_holdings once the ticker is upper-cased
PACER_REQUEST(ticker) ==
  Request("PacerScraper.HOLDINGS_URL_TEMPLATE", ticker, "", "", NONE, PacerScraper_TIMEOUT,
          "requests")

pacer_answer(doc, ticker) ==
  IF doc.status = 0 THEN transport_error(doc)
  ELSE IF doc.status = 404
    THEN Raised("ValueError", "PacerScraper: ticker not found (404)", <<>>)
  ELSE IF raises_for_status(doc) THEN transport_error(doc)
  ELSE pacer_parse(doc.lines, ticker)

\* a get_holdings that turns away the tickers KNOWN_TICKERS does not list
pacer_holdings_gated(ticker, doc) ==
  IF ticker \notin Range(Pacer_KNOWN_TICKERS)
    THEN Outcome(<<>>, Raised("ValueError", "PacerScraper: ticker not in KNOWN_TICKERS", <<>>))
    ELSE Outcome(<<PACER_REQUEST(ticker)>>, pacer_answer(doc, ticker))

pacer_holdings(ticker, doc) == Outcome(<<PACER_REQUEST(ticker)>>, pacer_answer(doc, ticker))

PacerScraper_get_holdings(ticker, as_of_date, doc) == pacer_holdings(upper(ticker), doc)

(***************************************************************************)
(* InvescoScraper: delegates to yfinance.  A holding percent is a fraction *)
(* of one, held here in hundredths.                                        *)
(***************************************************************************)
InvescoScraper_get_supported_tickers == sorted(Range(Invesco_KNOWN_TICKERS))

Frac(n) == [k |-> "frac", n |-> n, s |-> ""]

\* df["Weight"] * 100 on one cell
times_100(c) == IF c.k = "frac" THEN Num(c.n) ELSE IF c.k = "num" THEN Num(c.n * 100) ELSE c

invesco_parse(lines, ticker) ==
  IF lines = <<>> \/ Len(lines) = 1
    THEN Raised("ValueError", "InvescoScraper: no holdings data available", <<>>)
    ELSE
      LET df == rename(rename(read_table(lines), "Symbol", "Holding"),
                       "Holding Percent", "Weight")
      IN IF ~has_col(df, "Weight") THEN Raised("KeyError", "df['Weight']", <<>>)
         ELSE tag_and_select(
                [df EXCEPT !.rows =
                   [i \in DOMAIN @ |->
                      [@[i] EXCEPT ![col_index(df, "Weight")] = times_100(@)]]],
                ticker)

\* get_holdings once the ticker is upper-cased; yfinance is called without a
\* timeout (0)
invesco_holdings(ticker, doc) ==
  LET req == Request("yf.Ticker(ticker).funds_data.top_holdings", ticker, "", "", NONE,
                     0, "yfinance")
  IN Outcome(<<req>>,
       IF doc.status # 200
         THEN Raised("ValueError", "InvescoScraper: failed to fetch holdings", <<>>)
         ELSE invesco_parse(doc.lines, ticker))

InvescoScraper_get_holdings(ticker, as_of_date, doc) == invesco_holdings(upper(ticker), doc)

\* ETFScraper.is_supported: ticker.upper() in self.get_supported_tickers()
is_supported(ticker, supported_tickers) == upper(ticker) \in Range(supported_tickers)

(***************************************************************************)
(* main.py: the registry and get_etf_holdings.                             *)
(***************************************************************************)
ISHARES == <<"i","s","h","a","r","e","s">>
SSGA == <<"s","s","g","a">>
INVESCO == <<"i","n","v","e","s","c","o">>
VANECK == <<"v","a","n","e","c","k">>
FIRSTTRUST == <<"f","i","r","s","t","t","r","u","s","t">>
ARK == <<"a","r","k">>
GLOBALX == <<"g","l","o","b","a","l","x">>

\* SCRAPER_REGISTRY[issuer].get_holdings(ticker, as_of_date); env holds what
\* the remote side answers to the requests of this call
registry_get_holdings(cls, key, ticker, as_of_date, env) ==
  LET plain(o) == [cls |-> cls, fetches |-> o.fetches, result |-> o.result] IN
  CASE key = ISHARES ->
         ISharesScraper_get_holdings(cls, ticker, as_of_date, env.listing, env.doc)
    [] key = SSGA -> plain(SSGAScraper_get_holdings(ticker, as_of_date, env.doc))
    [] key = INVESCO -> plain(InvescoScraper_get_holdings(ticker, as_of_date, env.doc))
    [] key = VANECK -> plain(VanEckScraper_get_holdings(ticker, as_of_date, env.doc))
    [] key = FIRSTTRUST ->
         plain(FirstTrustScraper_get_holdings(ticker, as_of_date, env.doc))
    [] key = ARK -> plain(ARKScraper_get_holdings(ticker, as_of_date, env.doc))
    [] key = GLOBALX ->
         plain(GlobalXScraper_get_holdings(ticker, as_of_date, env.page, env.doc))

\* a lookup of the issuer as given
registry_key_as_given(issuer) == issuer

\* issuer = issuer.lower()
registry_key(issuer) == lower(issuer)

\* return SCRAPER_REGISTRY[issuer]().get_holdings(ticker, as_of_date); `adapter`
\* records the registry entry that was invoked
dispatched(key, o) ==
  [cls |-> o.cls, fetches |-> o.fetches, adapter |-> key, result |-> o.result]

unsupported_issuer(cls) ==
  [cls |-> cls, fetches |-> <<>>, adapter |-> <<>>,
   result |-> Raised("ValueError", "get_etf_holdings: unsupported issuer",
                     SCRAPER_REGISTRY_KEYS)]

get_etf_holdings_under(cls, ticker, key, as_of_date, env) ==
  IF key \notin Range(SCRAPER_REGISTRY_KEYS)
    THEN unsupported_issuer(cls)
    ELSE dispatched(key, registry_get_holdings(cls, key, ticker, as_of_date, env))

get_etf_holdings(cls, ticker, issuer, as_of_date, env) ==
  get_etf_holdings_under(cls, ticker, registry_key(issuer), as_of_date, env)

(***************************************************************************)
(* main.py: get_portfolio_holdings, one portfolio row at a time.           *)
(***************************************************************************)
column(df, name) == [i \in DOMAIN df.rows |-> df.rows[i][col_index(df, name)]]

\* df["Weight"].sum() raises (or yields a string that the comparison with
\* 100 rejects) when a weight is text; NaN is skipped
sum_raises(weights) == \E i \in DOMAIN weights : weights[i].k \notin {"num", "nan"}

RECURSIVE weight_sum(_)
weight_sum(weights) ==
  IF weights = <<>> THEN 0
  ELSE (IF Head(weights).k = "num" THEN Head(weights).n ELSE 0) + weight_sum(Tail(weights))

\* pd.DataFrame({"ETF Ticker": [row["ETF Ticker"]], "Holding": ["OTHER"], ...})
placeholder(portfolio_ticker, remaining_weight) ==
  DataFrame(OUTPUT_COLUMNS, << <<portfolio_ticker, Txt("OTHER"), Num(remaining_weight)>> >>)

\* pd.concat(frames, ignore_index=True) of frames with the output columns
RECURSIVE concat(_)
concat(frames) ==
  IF frames = <<>> THEN EmptyFrame
  ELSE IF Len(frames) = 1 THEN frames[1]
  ELSE DataFrame(frames[1].columns, frames[1].rows \o concat(Tail(frames)).rows)

\* what the try block of one row came to: `fetched` is what get_etf_holdings
\* gave, `result` the frame to append or the exception the except clause reports
tried(c, result) ==
  [cls |-> c.cls, fetches |-> c.fetches, adapter |-> c.adapter,
   fetched |-> c.result, result |-> result]

\* a completion that also fires at a total of exactly 100
completed_at_or_below(df, portfolio_ticker, total_weight) ==
  IF total_weight <= FULL_WEIGHT
    THEN concat(<<df, placeholder(portfolio_ticker, FULL_WEIGHT - total_weight)>>)
    ELSE df

\* if total_weight < 100: df = pd.concat([df, other_row], ignore_index=True)
completed(df, portfolio_ticker, total_weight) ==
  IF total_weight < FULL_WEIGHT
    THEN concat(<<df, placeholder(portfolio_ticker, FULL_WEIGHT - total_weight)>>)
    ELSE df

\* top_holding = df.iloc[0] and the summary line, then holdings.append(df)
summarised(c, df) ==
  IF df.rows = <<>> THEN tried(c, Raised("IndexError", "df.iloc[0]", <<>>))
  ELSE tried(c, Returned(df))

\* total_weight = df["Weight"].sum() and what follows it in the try block
weighed(c, row, weights) ==
  IF sum_raises(weights)
    THEN tried(c, Raised("TypeError", "df['Weight'].sum() < 100", <<>>))
    ELSE summarised(c, completed(c.result.df, row.ticker, weight_sum(weights)))

\* the try block after df = get_etf_holdings(row["ETF Ticker"], row["Provider Name"])
try_block(c, row) ==
  IF ~c.result.ok THEN tried(c, c.result)
  ELSE weighed(c, row, column(c.result.df, "Weight"))

portfolio_row(cls, row, env) ==
  try_block(get_etf_holdings(cls, row.ticker, row.provider, NONE, env), row)

\* the except clause: the failure is printed and the loop goes on; the frame
\* of a row that succeeded is appended
holdings_after(holdings_list, r) ==
  IF r.result.ok THEN Append(holdings_list, r.result.df) ELSE holdings_list

\* a loop whose except clause is missing: the first failure ends it
continues_after_aborting(portfolio_rows, i, r) == r.result.ok /\ i < Len(portfolio_rows)

\* has the loop more rows to go after the row at index i
continues_after(portfolio_rows, i, r) == i < Len(portfolio_rows)

\* return pd.concat(holdings, ignore_index=True) if holdings else pd.DataFrame()
portfolio_result(holdings_list) ==
  IF holdings_list # <<>> THEN concat(holdings_list) ELSE EmptyFrame

(***************************************************************************)
(* The remote side: the answers the providers may give.                    *)
(***************************************************************************)
Csv(lines) == Response(200, "text/csv", lines, <<>>, <<>>, <<>>)
Xlsx(rows) ==
  Response(200, "application/vnd.openxmlformats-officedocument.spreadsheetml.sheet",
           rows, <<>>, <<>>, <<>>)
Html(tables) == Response(200, "text/html", <<>>, tables, <<>>, <<>>)
Listing(links) == Response(200, "text/html", <<>>, <<>>, links, <<>>)
Page(text) == Response(200, "text/html", <<>>, <<>>, <<>>, text)

Link(href, text) == [href |-> href, text |-> text]

\* a listing with ticker links, a lower-case ticker text, a marketing link
\* and a product link whose text is the fund name
LISTING_A ==
  Listing(<< Link("/us/products/239726/ishares-core-sp-500-etf", <<"I","V","V">>),
             Link("/us/products/239458/ishares-core-total-us-bond-market-etf",
                  <<" ","a","g","g"," ">>),
             Link("/us/literature/fact-sheet", <<"F","A","C","T">>),
             Link("/us/products/333011/ishares-bitcoin-trust-etf",
                  <<"L","e","a","r","n">>),
             Link("/us/products/244049/ishares-core-msci-eafe-etf",
                  <<"i","S","h","a","r","e","s"," ","C","o","r","e">>) >>)

\* the listing after the provider re-numbered a product
LISTING_B ==
  Listing(<< Link("/us/products/244049/ishares-core-msci-eafe-etf", <<"I","V","V">>) >>)

LISTING_EMPTY == Listing(<<>>)

\* what the successive attempts of one listing fetch are answered with
ListingAnswers ==
  { <<LISTING_A, LISTING_A, LISTING_A, LISTING_A>>,
    <<LISTING_B, LISTING_B, LISTING_B, LISTING_B>>,
    <<LISTING_EMPTY, LISTING_EMPTY, LISTING_EMPTY, LISTING_EMPTY>>,
    <<Status(503), NETWORK_ERROR, LISTING_A, LISTING_A>>,
    <<Status(500), Status(502), Status(429), LISTING_A>>,
    <<Status(503), Status(503), Status(503), Status(504)>>,
    <<Status(404), LISTING_A, LISTING_A, LISTING_A>>,
    <<NETWORK_ERROR, NETWORK_ERROR, NETWORK_ERROR, NETWORK_ERROR>> }

Failures == { NETWORK_ERROR, Status(404), Status(500) }

ISharesDocs ==
  { Csv(<< <<Txt("iShares Core S&P 500 ETF")>>,
           <<Txt("Fund Holdings as of"), Txt("Jan 02, 2024")>>,
           <<>>,
           <<Txt("Ticker"), Txt("Name"), Txt("Sector"), Txt("Weight (%)")>>,
           <<Txt("AAPL"), Txt("APPLE INC"), Txt("IT"), Num(7)>>,
           <<Txt("MSFT"), Txt("MICROSOFT CORP"), Txt("IT"), Num(6)>>,
           <<>>,
           <<QTxt("The content")>> >>),
    Csv(<< <<Txt("Ticker"), Txt("Name"), Txt("Sector"), Txt("Weight (%)")>>,
           <<Txt("AAPL"), Txt("APPLE INC"), Txt("IT"), Num(70)>>,
           <<Txt("MSFT"), Txt("MICROSOFT CORP"), Txt("IT"), Num(50)>>,
           <<QTxt("The content")>> >>),
    Csv(<< <<Txt("Ticker"), Txt("Name"), Txt("Sector"), Txt("Weight (%)")>>,
           <<Txt("AAPL"), Txt("APPLE INC"), Txt("IT"), Num(7)>>,
           <<Txt("USD"), Txt("USD CASH"), Txt("Cash"), Txt("-")>> >>),
    Csv(<< <<Txt("<html>")>> >>) } \cup Failures

ArkDocs ==
  { Csv(<< <<Txt("company"), Txt("ticker"), Txt(" weight (%)")>>,
           <<Txt("TESLA INC"), Txt("TSLA"), Pct(60)>>,
           <<Txt("COINBASE GLOBAL INC"), Txt("COIN"), Pct(25)>>,
           <<Txt("The content")>> >>),
    Csv(<< <<Txt("company"), Txt("ticker"), Txt("weight (%)")>>,
           <<Txt("TESLA INC"), Txt("TSLA"), Pct(60)>>,
           <<Txt("COINBASE GLOBAL INC"), Txt("COIN"), Pct(40)>> >>),
    Csv(<< <<Txt("<html>")>> >>) } \cup Failures

VanEckDocs ==
  { Xlsx(<< <<Txt("Fund Name: Example ETF"), NaN, NaN>>,
            <<Txt("Ticker"), Txt("Security Name"), Txt("% of Net Assets")>>,
            <<Txt("NEM"), Txt("NEWMONT CORP"), Pct(55)>>,
            <<Txt("AEM"), Txt("AGNICO EAGLE MINES"), Pct(30)>>,
            <<NaN, NaN, NaN>>,
            <<Txt("The content"), NaN, NaN>> >>),
    Csv(<< <<Txt("Fund Name: Example ETF")>>,
           <<Txt("Security Name"), Txt("Weight (%)")>>,
           <<Txt("NEWMONT CORP"), Pct(55)>>,
           <<Txt("AGNICO EAGLE MINES"), Pct(45)>>,
           <<>>,
           <<Txt("The content")>> >>),
    Csv(<< <<Txt("<html>")>> >>) } \cup Failures

FirstTrustDocs ==
  { Html(<< << <<Txt("layout")>>, <<Txt("layout")>> >>,
            << <<Txt("Security Name"), Txt("Identifier"), Txt("Weighting")>>,
               <<Txt("CISCO SYSTEMS"), Txt("CSCO"), Pct(8)>>,
               <<Txt("BROADCOM INC"), Txt("AVGO"), Pct(7)>>,
               <<Txt("The content")>> >> >>),
    Html(<< << <<Txt("layout")>> >> >>) } \cup Failures

GlobalXPages ==
  { Page(<<"https://www.globalxetfs.com/funds/botz",
           "https://assets.globalxetfs.com/funds/holdings/botz_full-holdings_20240102.csv",
           "https://assets.globalxetfs.com/funds/holdings/botz_full-holdings_20231229.csv">>),
    Page(<<"https://www.globalxetfs.com/funds/botz">>) } \cup Failures

GlobalXDocs ==
  { Csv(<< <<Txt("Global X Robotics & Artificial Intelligence ETF")>>,
           <<Txt("Fund Holdings as of"), Txt("Jan 02, 2024")>>,
           <<Txt("% of Net Assets"), Txt("Ticker"), Txt("Name")>>,
           <<Num(12), Txt("NVDA"), Txt("NVIDIA CORP")>>,
           <<Num(9), Txt("ISRG"), Txt("INTUITIVE SURGICAL")>>,
           <<Txt("The content")>> >>),
    Csv(<< <<Txt("% of Net Assets"), Txt("Ticker"), Txt("Name")>>,
           <<Num(12), Txt("NVDA"), Txt("NVIDIA CORP")>> >>) } \cup Failures

SsgaDocs ==
  { Xlsx(<< <<Txt("Fund Name: Example ETF"), NaN, NaN>>,
            <<Txt("Name"), Txt("Ticker"), Txt("Weight")>>,
            <<Txt("APPLE INC"), Txt("AAPL"), Num(7)>>,
            <<Txt("MICROSOFT CORP"), Txt("MSFT"), Num(6)>>,
            <<NaN, NaN, NaN>>,
            <<Txt("The content"), NaN, NaN>> >>),
    Csv(<< <<Txt("<html>")>> >>) } \cup Failures

PacerDocs ==
  { Csv(<< <<Txt("StockTicker"), Txt("Security Name"), Txt(" Weightings ")>>,
           <<Txt("EQIX"), Txt("EQUINIX INC"), Pct(15)>>,
           <<Txt("AMT"), Txt("AMERICAN TOWER"), Pct(14)>>,
           <<Txt("Cash&Other"), Txt("Cash & Other"), Txt("-")>> >>),
    Csv(<< <<Txt("<html>")>> >>) } \cup Failures

YahooDocs ==
  { Csv(<< <<Txt("Symbol"), Txt("Name"), Txt("Holding Percent")>>,
           <<Txt("NVDA"), Txt("NVIDIA CORP"), Frac(9)>>,
           <<Txt("AAPL"), Txt("APPLE INC"), Frac(8)>> >>),
    Csv(<< <<Txt("Symbol"), Txt("Name"), Txt("Holding Percent")>> >>),
    Csv(<<>>) } \cup Failures

NO_ANSWER == Status(404)

Env(listing, page, doc) == [listing |-> listing, page |-> page, doc |-> doc]

Envs(L, P, D) == { Env(l, p, d) : l \in L, p \in P, d \in D }

NoListing == <<NO_ANSWER, NO_ANSWER, NO_ANSWER, NO_ANSWER>>

NoEnv == Env(NoListing, NO_ANSWER, NO_ANSWER)

RenumberedListing == <<LISTING_B, LISTING_B, LISTING_B, LISTING_B>>

\* the answers that matter to a call on the registry entry `key`
EnvsFor(key, loaded) ==
  CASE key = ISHARES ->
         Envs(IF loaded THEN {NoListing, RenumberedListing} ELSE ListingAnswers,
              {NO_ANSWER}, ISharesDocs)
    [] key = SSGA -> Envs({NoListing}, {NO_ANSWER}, SsgaDocs)
    [] key = INVESCO -> Envs({NoListing}, {NO_ANSWER}, YahooDocs)
    [] key = VANECK -> Envs({NoListing}, {NO_ANSWER}, VanEckDocs)
    [] key = FIRSTTRUST -> Envs({NoListing}, {NO_ANSWER}, FirstTrustDocs)
    [] key = ARK -> Envs({NoListing}, {NO_ANSWER}, ArkDocs)
    [] key = GLOBALX -> Envs({NoListing}, GlobalXPages, GlobalXDocs)
    [] OTHER -> Envs({NoListing}, {NO_ANSWER}, {NO_ANSWER})

(***************************************************************************)
(* The inputs of the calls.                                                *)
(***************************************************************************)
TickerInputs ==
  { <<"I","V","V">>, <<"i","v","v">>, <<"A","g","g">>, <<"l","e","a","r","n">>,
    <<"A","R","K","K">>, <<"a","r","k","k">>, <<"G","D","X">>, <<"g","d","x">>,
    <<"S","P","Y">>, <<"b","o","t","z">>, <<"C","I","B","R">>, <<"Q","Q","Q">>,
    <<"Z","Z","Z","Z">> }

IssuerInputs ==
  { ISHARES, <<"I","S","H","A","R","E","S">>, <<"i","S","h","a","r","e","s">>,
    SSGA, INVESCO, VANECK, <<"V","a","n","E","c","k">>, FIRSTTRUST, ARK,
    <<"A","R","K">>, GLOBALX, <<"p","a","c","e","r">>,
    <<"v","a","n","g","u","a","r","d">> }

AsOfInputs == { NONE, "", "2024-01-31" }

PACER == <<"p","a","c","e","r">>

\* the rows a portfolio file may hold (columns "ETF Ticker", "Provider Name")
PortfolioRow(ticker, provider) == [ticker |-> ticker, provider |-> provider]

RowInputs ==
  { PortfolioRow(<<"i","v","v">>, <<"i","S","h","a","r","e","s">>),
    PortfolioRow(<<"a","r","k","k">>, ARK),
    PortfolioRow(<<"Q","Q","Q">>, <<"v","a","n","g","u","a","r","d">>) }

RECURSIVE SeqsUpTo(_, _)
SeqsUpTo(S, n) ==
  IF n = 0 THEN { <<>> }
  ELSE LET shorter == SeqsUpTo(S, n - 1) IN
       shorter \cup { Append(p, x) : p \in { q \in shorter : Len(q) = n - 1 }, x \in S }

Portfolios == SeqsUpTo(RowInputs, MaxRows)

\* the answers a row of a batch may meet
BatchEnvsFor(key, loaded) ==
  CASE key = ISHARES ->
         Envs(IF loaded THEN {RenumberedListing}
              ELSE { <<LISTING_A, LISTING_A, LISTING_A, LISTING_A>>,
                     <<Status(503), Status(503), Status(503), Status(504)>> },
              {NO_ANSWER},
              { d \in ISharesDocs : d.status \in {200, 500} /\ Len(d.lines) # 1 })
    [] key = ARK ->
         Envs({NoListing}, {NO_ANSWER}, { d \in ArkDocs : d.status \in {200, 500} })
    [] OTHER -> Envs({NoListing}, {NO_ANSWER}, {NO_ANSWER})

(***************************************************************************)
(* State.                                                                  *)
(***************************************************************************)
VARIABLES
  _etf_index,       \* ISharesScraper._etf_index
  _index_loaded,    \* ISharesScraper._index_loaded
  _session,         \* ISharesScraper._session
  listing_loads,    \* history: listing fetches that returned a page
  last,             \* the most recent call: its inputs, requests and outcome
  answered,         \* history: what the remote side held for that call
  pc,               \* get_portfolio_holdings: "idle", "batch" or "done"
  portfolio,        \* the rows read from the portfolio file
  row_index,        \* the row the loop is at
  holdings,         \* the list `holdings` of the loop
  row_log,          \* history: per processed row, what happened
  output,           \* the frame get_portfolio_holdings returned
  callers           \* ConcSpec: the concurrent callers of the iShares adapter

class_vars == <<_etf_index, _index_loaded, _session>>
history_vars == <<listing_loads>>
batch_vars == <<pc, portfolio, row_index, holdings, row_log, output>>
vars == <<class_vars, history_vars, last, answered, batch_vars, callers>>

cls == ClassState(_etf_index, _index_loaded, _session)

\* the requests of a call that went to the listing page
listing_requests(fetches) == SelectSeq(fetches, LAMBDA r : r.via = "session")

\* the status each request of a call was answered with
answers(fetches, env) ==
  [i \in DOMAIN fetches |->
     IF fetches[i].via = "session" THEN env.listing[fetches[i].attempts].status
     ELSE IF fetches[i].url = "GlobalXScraper.FUND_PAGE_URL" THEN env.page.status
     ELSE env.doc.status]

Call(op, adapter, ticker, issuer, as_of_date, fetches, statuses, result, tickers) ==
  [op |-> op, adapter |-> adapter, ticker |-> ticker, issuer |-> issuer,
   as_of_date |-> as_of_date, fetches |-> fetches, statuses |-> statuses,
   result |-> result, tickers |-> tickers]

NoCall == Call("none", <<>>, <<>>, <<>>, NONE, <<>>, <<>>, NoResult, <<>>)

NoCaller == [pc |-> "idle", op |-> "none", ticker |-> <<>>, links |-> <<>>,
             fetches |-> <<>>, result |-> NoResult, tickers |-> <<>>]

Init ==
  /\ _etf_index = InitialClassState.etf_index
  /\ _index_loaded = InitialClassState.index_loaded
  /\ _session = InitialClassState.session
  /\ listing_loads = 0
  /\ last = NoCall
  /\ answered = NoEnv
  /\ pc = "idle"
  /\ portfolio = <<>>
  /\ row_index = 0
  /\ holdings = <<>>
  /\ row_log = <<>>
  /\ output = EmptyFrame
  /\ callers = [c \in 1..MaxCallers |-> NoCaller]

\* the listing fetches of a call that returned a page
loads(fetches, statuses) ==
  Cardinality({ i \in DOMAIN fetches : fetches[i].via = "session" /\ statuses[i] = 200 })

\* the class state after a call, and the history of listing fetches
Commit(new_cls, fetches, statuses) ==
  /\ _etf_index' = new_cls.etf_index
  /\ _index_loaded' = new_cls.index_loaded
  /\ _session' = new_cls.session
  /\ listing_loads' = listing_loads + loads(fetches, statuses)

\* a call made on its own: its outcome `o` under the answers `env` is kept in `last`
Made(op, adapter, ticker, issuer, as_of_date, o, env, tickers) ==
  /\ Commit(o.cls, o.fetches, answers(o.fetches, env))
  /\ answered' = env
  /\ last' = Call(op, adapter, ticker, issuer, as_of_date, o.fetches,
                  answers(o.fetches, env), o.result, tickers)
  /\ UNCHANGED batch_vars
  /\ UNCHANGED callers

(***************************************************************************)
(* Calls made one at a time.                                               *)
(***************************************************************************)
GetEtfHoldingsMade(ticker, issuer, as_of_date, o, env) ==
  Made("get_etf_holdings", o.adapter, ticker, issuer, as_of_date, o, env, <<>>)

\* get_etf_holdings(ticker, issuer, as_of_date)
CallGetEtfHoldings ==
  /\ pc = "idle"
  /\ last = NoCall
  /\ \E ticker \in TickerInputs, issuer \in IssuerInputs, as_of_date \in AsOfInputs :
       \E env \in EnvsFor(registry_key(issuer), _index_loaded) :
         GetEtfHoldingsMade(ticker, issuer, as_of_date,
                            get_etf_holdings(cls, ticker, issuer, as_of_date, env), env)

PacerGetHoldingsMade(ticker, as_of_date, o, env) ==
  Made("get_holdings", PACER, ticker, PACER, as_of_date,
       [cls |-> cls, fetches |-> o.fetches, result |-> o.result], env, <<>>)

\* PacerScraper().get_holdings(ticker): the adapter is reachable only directly
CallPacerGetHoldings ==
  /\ pc = "idle"
  /\ last = NoCall
  /\ \E ticker \in TickerInputs, as_of_date \in AsOfInputs, doc \in PacerDocs :
       PacerGetHoldingsMade(ticker, as_of_date,
                            PacerScraper_get_holdings(ticker, as_of_date, doc),
                            Env(NoListing, NO_ANSWER, doc))

\* get_supported_tickers() of the adapter under `key`
supported_tickers(key, st, listing) ==
  CASE key = ISHARES -> ISharesScraper_get_supported_tickers(st, listing)
    [] key = SSGA ->
         [cls |-> st, fetches |-> <<>>, result |-> Returned(EmptyFrame),
          tickers |-> SSGAScraper_get_supported_tickers]
    [] key = INVESCO ->
         [cls |-> st, fetches |-> <<>>, result |-> Returned(EmptyFrame),
          tickers |-> InvescoScraper_get_supported_tickers]
    [] key = VANECK ->
         [cls |-> st, fetches |-> <<>>, result |-> Returned(EmptyFrame),
          tickers |-> VanEckScraper_get_supported_tickers]
    [] key = FIRSTTRUST ->
         [cls |-> st, fetches |-> <<>>, result |-> Returned(EmptyFrame),
          tickers |-> FirstTrustScraper_get_supported_tickers]
    [] key = ARK ->
         [cls |-> st, fetches |-> <<>>, result |-> Returned(EmptyFrame),
          tickers |-> ARKScraper_get_supported_tickers]
    [] key = GLOBALX ->
         [cls |-> st, fetches |-> <<>>, result |-> Returned(EmptyFrame),
          tickers |-> GlobalXScraper_get_supported_tickers]
    [] key = PACER ->
         [cls |-> st, fetches |-> <<>>, result |-> Returned(EmptyFrame),
          tickers |-> PacerScraper_get_supported_tickers]

Adapters == Range(SCRAPER_REGISTRY_KEYS) \cup {PACER}

\* the answers that matter to an enumeration by the adapter under `key`
ListingEnvsFor(key, loaded) ==
  Envs(IF key # ISHARES THEN {NoListing}
       ELSE IF loaded THEN {NoListing, RenumberedListing} ELSE ListingAnswers,
       {NO_ANSWER}, {NO_ANSWER})

GetSupportedTickersMade(key, o, env) ==
  Made("get_supported_tickers", key, <<>>, key, NONE, o, env, o.tickers)

CallGetSupportedTickers ==
  /\ pc = "idle"
  /\ last = NoCall
  /\ \E key \in Adapters :
       \E env \in ListingEnvsFor(key, _index_loaded) :
         GetSupportedTickersMade(key, supported_tickers(key, cls, env.listing), env)

\* the answer of is_supported is kept in `tickers` as <<ticker.upper()>> when
\* the ticker is supported and <<>> when not
IsSupportedMade(key, ticker, o, env) ==
  Made("is_supported", key, ticker, key, NONE, o, env,
       IF o.result.ok /\ is_supported(ticker, o.tickers) THEN <<upper(ticker)>> ELSE <<>>)

\* is_supported(ticker) of the adapter under `key`
CallIsSupported ==
  /\ pc = "idle"
  /\ last = NoCall
  /\ \E key \in Adapters, ticker \in TickerInputs :
       \E env \in ListingEnvsFor(key, _index_loaded) :
         IsSupportedMade(key, ticker, supported_tickers(key, cls, env.listing), env)

(***************************************************************************)
(* get_portfolio_holdings.                                                 *)
(***************************************************************************)
\* portfolio = pd.read_csv(csv_path); an empty file returns at once
StartBatch ==
  /\ pc = "idle"
  /\ last = NoCall
  /\ \E p \in Portfolios :
       /\ portfolio' = p
       /\ pc' = IF p = <<>> THEN "done" ELSE "batch"
       /\ row_index' = 1
  /\ holdings' = <<>>
  /\ row_log' = <<>>
  /\ output' = portfolio_result(<<>>)
  /\ UNCHANGED <<class_vars, history_vars, last, answered, callers>>

\* what the loop keeps of a row it has processed
Logged(r, statuses) ==
  [adapter |-> r.adapter, fetches |-> r.fetches, statuses |-> statuses,
   fetched |-> r.fetched, ok |-> r.result.ok]

RowDone(r, statuses, appended, more) ==
  /\ Commit(r.cls, r.fetches, statuses)
  /\ holdings' = appended
  /\ row_log' = Append(row_log, Logged(r, statuses))
  /\ row_index' = row_index + 1
  /\ pc' = IF more THEN "batch" ELSE "done"
  /\ output' = IF more THEN output ELSE portfolio_result(appended)
  /\ UNCHANGED <<last, answered, portfolio, callers>>

RowTried(r, env) ==
  RowDone(r, answers(r.fetches, env), holdings_after(holdings, r),
          continues_after(portfolio, row_index, r))

\* one iteration of the loop; after the last row the frames are concatenated
BatchRow ==
  /\ pc = "batch"
  /\ row_index <= Len(portfolio)
  /\ \E env \in BatchEnvsFor(registry_key(portfolio[row_index].provider), _index_loaded) :
       RowTried(portfolio_row(cls, portfolio[row_index], env), env)

\* the caller has taken the outcome of the call or of the batch and goes on
Resume ==
  /\ pc # "batch"
  /\ last # NoCall \/ pc = "done"
  /\ last' = NoCall
  /\ answered' = NoEnv
  /\ pc' = "idle"
  /\ portfolio' = <<>>
  /\ row_index' = 0
  /\ holdings' = <<>>
  /\ row_log' = <<>>
  /\ output' = EmptyFrame
  /\ UNCHANGED <<class_vars, history_vars, callers>>

Next ==
  \/ CallGetEtfHoldings
  \/ CallPacerGetHoldings
  \/ CallGetSupportedTickers
  \/ CallIsSupported
  \/ StartBatch
  \/ BatchRow
  \/ Resume

Spec == Init /\ [][Next]_vars

(***************************************************************************)
(* Concurrent callers of the iShares adapter.  Each caller runs one        *)
(* get_holdings or get_supported_tickers; the class attributes are shared  *)
(* and nothing in ishares_scraper.py locks them, so the callers interleave *)
(* between the statements of _fetch_etf_index.                             *)
(***************************************************************************)
Callers == 1..MaxCallers

ConcTickers == { <<"i","v","v">>, <<"Z","Z","Z">> }

ConcListings ==
  { <<LISTING_B, LISTING_B, LISTING_B, LISTING_B>>,
    <<Status(503), LISTING_A, LISTING_A, LISTING_A>>,
    <<Status(503), Status(503), Status(503), Status(504)>> }

ConcDocs == { d \in ISharesDocs : d.status = 500 \/ Len(d.lines) = 4 }

Moved(c, caller) ==
  /\ callers' = [callers EXCEPT ![c] = caller]
  /\ UNCHANGED <<last, answered, batch_vars>>

\* scraper.get_holdings(ticker) or scraper.get_supported_tickers() is called
Enter(c) ==
  /\ callers[c].pc = "idle"
  /\ \E op \in {"get_holdings", "get_supported_tickers"}, ticker \in ConcTickers :
       Moved(c, [callers[c] EXCEPT
                   !.pc = "check", !.op = op,
                   !.ticker = IF op = "get_holdings" THEN upper(ticker) ELSE <<>>])
  /\ UNCHANGED <<class_vars, history_vars>>

\* if ISharesScraper._index_loaded: return
CheckLoaded(c) ==
  /\ callers[c].pc = "check"
  /\ Moved(c, [callers[c] EXCEPT !.pc = IF _index_loaded THEN "lookup" ELSE "session"])
  /\ UNCHANGED <<class_vars, history_vars>>

\* session = self._get_session()
GetSession(c) ==
  /\ callers[c].pc = "session"
  /\ _session' = _get_session(cls).session
  /\ Moved(c, [callers[c] EXCEPT !.pc = "fetch"])
  /\ UNCHANGED <<_etf_index, _index_loaded, history_vars>>

Fetched(c, got) ==
  /\ listing_loads' = listing_loads + (IF got.raised \/ raises_for_status(got.response)
                                         THEN 0 ELSE 1)
  /\ Moved(c, [callers[c] EXCEPT
                 !.fetches = Append(@, LISTING_REQUEST(got.n)),
                 !.pc = IF got.raised \/ raises_for_status(got.response)
                          THEN "done" ELSE "populate",
                 !.links = IF got.raised THEN <<>> ELSE got.response.links,
                 !.result = IF got.raised THEN Raised(got.exc, "session.get", <<>>)
                            ELSE IF raises_for_status(got.response)
                              THEN Raised("HTTPError", "raise_for_status", <<>>)
                            ELSE @])

\* response = session.get(...); response.raise_for_status()
FetchListing(c) ==
  /\ callers[c].pc = "fetch"
  /\ \E listing \in ConcListings : Fetched(c, session_get(listing, 1, Retry_total))
  /\ UNCHANGED class_vars

\* one turn of the loop over the product links
StoreLink(c) ==
  /\ callers[c].pc = "populate"
  /\ callers[c].links # <<>>
  /\ _etf_index' = store_link(_etf_index, Head(callers[c].links))
  /\ Moved(c, [callers[c] EXCEPT !.links = Tail(@)])
  /\ UNCHANGED <<_index_loaded, _session, history_vars>>

\* ISharesScraper._index_loaded = True
SetLoaded(c) ==
  /\ callers[c].pc = "populate"
  /\ callers[c].links = <<>>
  /\ _index_loaded' = TRUE
  /\ Moved(c, [callers[c] EXCEPT !.pc = "lookup"])
  /\ UNCHANGED <<_etf_index, _session, history_vars>>

Downloaded(c, req, doc) ==
  Moved(c, [callers[c] EXCEPT
              !.pc = "done",
              !.fetches = Append(@, req),
              !.result = IF doc.status = 0 \/ raises_for_status(doc)
                           THEN transport_error(doc)
                           ELSE ishares_parse(doc.lines, callers[c].ticker)])

\* the rest of the call once _fetch_etf_index has returned
Finish(c) ==
  /\ callers[c].pc = "lookup"
  /\ IF callers[c].op = "get_supported_tickers"
       THEN Moved(c, [callers[c] EXCEPT !.pc = "done",
                                        !.result = Returned(EmptyFrame),
                                        !.tickers = sorted(DOMAIN _etf_index)])
     ELSE IF callers[c].ticker \notin DOMAIN _etf_index
       THEN Moved(c, [callers[c] EXCEPT
                        !.pc = "done",
                        !.result = Raised("ValueError",
                          "ISharesScraper: ticker not found in iShares ETF index", <<>>)])
     ELSE \E doc \in ConcDocs :
            Downloaded(c, HOLDINGS_REQUEST(_etf_index[callers[c].ticker],
                                           callers[c].ticker, NONE), doc)
  /\ UNCHANGED <<class_vars, history_vars>>

CallerEnter == \E c \in Callers : Enter(c)
CallerCheckLoaded == \E c \in Callers : CheckLoaded(c)
CallerGetSession == \E c \in Callers : GetSession(c)
CallerFetchListing == \E c \in Callers : FetchListing(c)
CallerStoreLink == \E c \in Callers : StoreLink(c)
CallerSetLoaded == \E c \in Callers : SetLoaded(c)
CallerFinish == \E c \in Callers : Finish(c)

ConcNext ==
  \/ CallerEnter
  \/ CallerCheckLoaded
  \/ CallerGetSession
  \/ CallerFetchListing
  \/ CallerStoreLink
  \/ CallerSetLoaded
  \/ CallerFinish

ConcSpec == Init /\ [][ConcNext]_vars

(***************************************************************************)
(* ParseSpec: get_etf_holdings on generated files.  A file is some leading *)
(* metadata rows, a header row, data rows and possibly a footer row.       *)
(***************************************************************************)
MaxDataRows == 2

MetaCounts == {0, 1, 2, 5}

MetaRow(i) ==
  IF i % 2 = 1 THEN <<Txt("Fund Name: Example ETF")>>
  ELSE <<Txt("Fund Holdings as of"), Txt("Jan 02, 2024")>>

Metadata(k) == [i \in 1..k |-> MetaRow(i)]

\* a header row: its labels and the field each column carries
Layout(labels, fields) == [labels |-> labels, fields |-> fields]

Layouts ==
  { Layout(<<"Ticker", "Name", "Weight (%)">>, <<"ticker", "name", "weight">>),
    Layout(<<"Name", "Ticker", "Weight">>, <<"name", "ticker", "weight">>),
    Layout(<<"% of Net Assets", "Ticker", "Name">>, <<"weight", "ticker", "name">>),
    Layout(<<"company", "ticker", "weight (%)">>, <<"name", "ticker", "weight">>),
    Layout(<<"ticker", "weight">>, <<"ticker", "weight">>),
    Layout(<<"Holding", "Weight">>, <<"ticker", "weight">>) }

HoldingRow(ticker, name, weight) ==
  [ticker |-> Txt(ticker), name |-> Txt(name), weight |-> weight]

\* a plain number, "12%", "  7 % " and "N/A" as weights
HoldingRows ==
  { HoldingRow("AAPL", "APPLE INC", Num(70)),
    HoldingRow("GOOG", "ALPHABET INC", Num(30)),
    HoldingRow("MSFT", "MICROSOFT CORP", Pct(12)),
    HoldingRow("NVDA", "NVIDIA CORP", PaddedPct(7)),
    HoldingRow("USD", "USD CASH", Txt("N/A")) }

Footers == { <<>>, << <<Txt("The content")>> >>, << <<QTxt("The content")>> >> }

HeaderRow(layout) == [j \in DOMAIN layout.labels |-> Txt(layout.labels[j])]

TableRow(layout, r) == [j \in DOMAIN layout.fields |-> r[layout.fields[j]]]

GeneratedTable(k, layout, rows, footer) ==
  Metadata(k) \o <<HeaderRow(layout)>>
    \o [i \in DOMAIN rows |-> TableRow(layout, rows[i])] \o footer

GeneratedTables ==
  { GeneratedTable(k, layout, rows, footer) :
      k \in MetaCounts, layout \in Layouts,
      rows \in SeqsUpTo(HoldingRows, MaxDataRows), footer \in Footers }

ParsingAdapters == {ISHARES, GLOBALX, VANECK, SSGA, ARK}

\* a fund each of these adapters can locate
FundOf(key) ==
  CASE key = ISHARES -> <<"I","V","V">>
    [] key = GLOBALX -> <<"B","O","T","Z">>
    [] key = VANECK -> <<"G","D","X">>
    [] key = SSGA -> <<"S","P","Y">>
    [] key = ARK -> <<"A","R","K","K">>

FUND_PAGE ==
  Page(<<"https://www.globalxetfs.com/funds/botz",
         "https://assets.globalxetfs.com/funds/holdings/botz_full-holdings_20240102.csv">>)

\* the generated files as the adapter under `key` may be sent them
GeneratedEnvsFor(key) ==
  CASE key = ISHARES ->
         { Env(<<LISTING_A, LISTING_A, LISTING_A, LISTING_A>>, NO_ANSWER, Csv(t)) :
             t \in GeneratedTables }
    [] key = GLOBALX -> { Env(NoListing, FUND_PAGE, Csv(t)) : t \in GeneratedTables }
    [] key = VANECK ->
         { Env(NoListing, NO_ANSWER, Csv(t)) : t \in GeneratedTables }
           \cup { Env(NoListing, NO_ANSWER, Xlsx(t)) : t \in GeneratedTables }
    [] key = SSGA -> { Env(NoListing, NO_ANSWER, Xlsx(t)) : t \in GeneratedTables }
    [] key = ARK -> { Env(NoListing, NO_ANSWER, Csv(t)) : t \in GeneratedTables }

\* get_etf_holdings(fund, key) answered with a generated file
CallOnGenerated ==
  /\ pc = "idle"
  /\ last = NoCall
  /\ \E key \in ParsingAdapters :
       \E env \in GeneratedEnvsFor(key) :
         GetEtfHoldingsMade(FundOf(key), key, NONE,
                            get_etf_holdings(cls, FundOf(key), key, NONE, env), env)

\* a returned frame as a table of cells: the fund ticker of its first column
\* is a text like any other
as_table(df) ==
  [df EXCEPT !.rows =
     [i \in DOMAIN @ |->
        [j \in DOMAIN @[i] |->
           IF df.columns[j] = "ETF Ticker" THEN [k |-> "str", n |-> 0, s |-> @[i][j]]
           ELSE @[i][j]]]]

\* VanEckScraper._normalise applied to the frame a VanEck call returned
Renormalise ==
  /\ pc = "idle"
  /\ last.op = "get_etf_holdings"
  /\ last.adapter = VANECK
  /\ last.result.ok
  /\ last' = Call("_normalise", VANECK, last.ticker, last.issuer, NONE, <<>>, <<>>,
                  _normalise(as_table(last.result.df), upper(last.ticker)), <<>>)
  /\ answered' = last.result.df
  /\ UNCHANGED <<class_vars, history_vars, batch_vars, callers>>

ParseNext ==
  \/ CallOnGenerated
  \/ Renormalise
  \/ Resume

ParseSpec == Init /\ [][ParseNext]_vars

(***************************************************************************)
(* Properties.                                                             *)
(***************************************************************************)
Registered(issuer) == lower(issuer) \in Range(SCRAPER_REGISTRY_KEYS)

\* the call held in `last` is a get_holdings of an adapter, made through the
\* registry or directly
HoldingsCall == last.op \in {"get_etf_holdings", "get_holdings"}

\* the holdings downloads among the requests of a call
downloads(fetches) == SelectSeq(fetches, LAMBDA r : r.via # "session")

\* C1: when callers make their first calls on the iShares adapter
\* concurrently, the listing page is fetched and the index populated at most
\* once.
ListingLoadedAtMostOnce == listing_loads <= 1

\* C2: once the index is loaded, every further call leaves it loaded, leaves
\* its contents as they are and issues no request for the listing page.
IndexCacheIrreversible ==
  [][_index_loaded =>
       /\ _index_loaded'
       /\ _etf_index' = _etf_index
       /\ listing_loads' = listing_loads
       /\ listing_requests(last'.fetches) = <<>>
       /\ \A i \in DOMAIN row_log' :
            i > Len(row_log) => listing_requests(row_log'[i].fetches) = <<>>]_vars

\* a call on the iShares adapter that found the index loaded: it downloaded
\* holdings without asking for the listing page
LoadedIndexServedACall ==
  /\ _index_loaded
  /\ last.op = "get_etf_holdings"
  /\ last.adapter = ISHARES
  /\ last.result.ok
  /\ Len(last.fetches) = 1
  /\ listing_requests(last.fetches) = <<>>

\* the rows of the log that were processed without a failure, in order
processed_ok(log) == SelectSeq([i \in DOMAIN log |-> i], LAMBDA i : log[i].ok)

RECURSIVE records_of(_)
records_of(frames) ==
  IF frames = <<>> THEN <<>> ELSE Head(frames).rows \o records_of(Tail(frames))

\* C3: a failure on one portfolio row never ends the batch: every row is
\* processed, a failed row adds no frame, and the output is the records of
\* the rows that succeeded, in portfolio order.
BatchSkipsFailedRows ==
  pc \in {"batch", "done"} =>
    /\ Len(row_log) = row_index - 1
    /\ (pc = "done" <=> Len(row_log) = Len(portfolio))
    /\ Len(holdings) = Len(processed_ok(row_log))
    /\ \A j \in DOMAIN holdings :
         /\ row_log[processed_ok(row_log)[j]].fetched.ok
         /\ SubSeq(holdings[j].rows, 1,
                   Len(row_log[processed_ok(row_log)[j]].fetched.df.rows))
              = row_log[processed_ok(row_log)[j]].fetched.df.rows
    /\ (pc = "done" => output.rows = records_of(holdings))

\* three funds, the second failing: the batch ends with funds 1 and 3
SecondOfThreeFailed ==
  /\ pc = "done"
  /\ Len(portfolio) = 3
  /\ Len(row_log) = 3
  /\ row_log[1].ok /\ ~row_log[2].ok /\ row_log[3].ok
  /\ Len(holdings) = 2
  /\ output.rows # <<>>

\* the frame appended for the j-th successful row against what was fetched
completes(h, f, S) ==
  IF S < 100
    THEN /\ Len(h.rows) = Len(f.rows) + 1
         /\ SubSeq(h.rows, 1, Len(f.rows)) = f.rows
         /\ h.rows[Len(h.rows)][2] = Txt("OTHER")
         /\ h.rows[Len(h.rows)][3] = Num(100 - S)
         /\ weight_sum(column(h, "Weight")) = 100
    ELSE h = f

\* C4: a fetched fund whose weights sum to S < 100 gets one last record
\* OTHER of weight 100 - S, so that its total is 100; a fund with S >= 100 is
\* kept as fetched.
PlaceholderCompletesWeight ==
  \A j \in DOMAIN holdings :
    completes(holdings[j], row_log[processed_ok(row_log)[j]].fetched.df,
              weight_sum(column(row_log[processed_ok(row_log)[j]].fetched.df, "Weight")))

\* a batch with one fund below 100 and one fund at or above 100
OneCompletedOneFull ==
  /\ pc = "done"
  /\ Len(holdings) = 2
  /\ holdings[1].rows[Len(holdings[1].rows)][2] = Txt("OTHER")
  /\ weight_sum(column(row_log[processed_ok(row_log)[1]].fetched.df, "Weight")) < 100
  /\ weight_sum(column(row_log[processed_ok(row_log)[2]].fetched.df, "Weight")) >= 100
  /\ holdings[2] = row_log[processed_ok(row_log)[2]].fetched.df

\* C5: get_etf_holdings looks the issuer up lower-cased; an issuer that is no
\* registry key is refused with the list of keys, without any adapter, any
\* request or any change of the index cache.
UnsupportedIssuerRefused ==
  [][(last'.op = "get_etf_holdings" /\ last' # last) =>
       IF Registered(last'.issuer)
         THEN last'.adapter = lower(last'.issuer)
         ELSE /\ ~last'.result.ok
              /\ last'.result.exc = "ValueError"
              /\ last'.result.site = "get_etf_holdings: unsupported issuer"
              /\ last'.result.detail = SCRAPER_REGISTRY_KEYS
              /\ last'.adapter = <<>>
              /\ last'.fetches = <<>>
              /\ UNCHANGED class_vars
              /\ UNCHANGED history_vars]_vars

\* a call with an issuer outside the registry, made when the index was loaded
UnsupportedIssuerSeen ==
  /\ last.op = "get_etf_holdings"
  /\ ~Registered(last.issuer)
  /\ ~last.result.ok
  /\ _index_loaded

\* C6: from one adapter state and under the same answers, get_etf_holdings
\* does the same for inputs that differ only in letter case: the outcome for
\* (ticker, issuer) is that for (TICKER, issuer key) and for (ticker in lower
\* case, ISSUER) - adapter, requests, class state and result.
CaseInsensitiveEndToEnd ==
  (pc = "idle" /\ last = NoCall) =>
    \A ticker \in TickerInputs, issuer \in IssuerInputs, as_of_date \in AsOfInputs :
      Registered(issuer) =>
        \A env \in EnvsFor(lower(issuer), _index_loaded) :
          /\ get_etf_holdings(cls, ticker, issuer, as_of_date, env)
               = get_etf_holdings(cls, upper(ticker), lower(issuer), as_of_date, env)
          /\ get_etf_holdings(cls, ticker, issuer, as_of_date, env)
               = get_etf_holdings(cls, lower(ticker), upper(issuer), as_of_date, env)

\* a successful call whose ticker and issuer were not in their canonical case
MixedCaseCallSucceeded ==
  /\ last.op = "get_etf_holdings"
  /\ last.ticker # upper(last.ticker)
  /\ last.issuer # lower(last.issuer)
  /\ last.result.ok
  /\ last.result.df.rows # <<>>

\* C7: a successful get_holdings returns records of exactly the fields ETF
\* Ticker, Holding, Weight, each carrying the requested ticker in upper case.
ResultIsThreeFieldsOneTicker ==
  (HoldingsCall /\ last.result.ok) =>
    /\ last.result.df.columns = <<"ETF Ticker", "Holding", "Weight">>
    /\ \A i \in DOMAIN last.result.df.rows :
         /\ Len(last.result.df.rows[i]) = 3
         /\ last.result.df.rows[i][1] = upper(last.ticker)

\* a direct call with a lower-case ticker that returned several records
LowerCaseTickerTagged ==
  /\ last.op = "get_holdings"
  /\ last.ticker # upper(last.ticker)
  /\ last.result.ok
  /\ Len(last.result.df.rows) >= 2

static_map(adapter) ==
  IF adapter = ARK THEN DOMAIN ARK_TICKER_FILENAME_MAP ELSE DOMAIN VanEck_TICKER_SLUG_MAP

unknown_in_map(result) ==
  /\ ~result.ok
  /\ result.exc = "ValueError"
  /\ result.site \in {"ARKScraper: ticker not in TICKER_FILENAME_MAP",
                      "VanEckScraper: ticker not in TICKER_SLUG_MAP"}

not_found_404(result) ==
  /\ ~result.ok
  /\ result.site \in {"ARKScraper: holdings CSV not found (404)",
                      "VanEckScraper: holdings data not found (404)"}

\* C8: ARK and VanEck refuse a ticker absent from their map without any
\* request; for a ticker of the map one request is made, and a 404 answer is
\* reported as not found, never as an unknown ticker.
StaticMapRefusesBeforeFetch ==
  (last.op = "get_etf_holdings" /\ last.adapter \in {ARK, VANECK}) =>
    IF upper(last.ticker) \notin static_map(last.adapter)
      THEN last.fetches = <<>> /\ unknown_in_map(last.result)
      ELSE /\ Len(last.fetches) = 1
           /\ ~unknown_in_map(last.result)
           /\ (last.statuses = <<404>> => not_found_404(last.result))

\* a ticker of the ARK map whose file the server did not have
MappedTickerMet404 ==
  /\ last.op = "get_etf_holdings"
  /\ last.adapter = ARK
  /\ upper(last.ticker) \in static_map(ARK)
  /\ last.statuses = <<404>>
  /\ not_found_404(last.result)

\* C9: the iShares adapter reports an unknown ticker only with the index
\* loaded and the upper-cased ticker absent from it, and then downloads
\* nothing; it downloads holdings only for a ticker of the loaded index, from
\* the product id and slug of its entry.
UnknownTickerOnlyWhenLoaded ==
  (last.op = "get_etf_holdings" /\ last.adapter = ISHARES) =>
    /\ (~last.result.ok
          /\ last.result.site = "ISharesScraper: ticker not found in iShares ETF index") =>
         /\ _index_loaded
         /\ upper(last.ticker) \notin DOMAIN _etf_index
         /\ downloads(last.fetches) = <<>>
    /\ \A i \in DOMAIN downloads(last.fetches) :
         /\ _index_loaded
         /\ upper(last.ticker) \in DOMAIN _etf_index
         /\ downloads(last.fetches)[i].id = _etf_index[upper(last.ticker)].product_id
         /\ downloads(last.fetches)[i].slug = _etf_index[upper(last.ticker)].slug

\* an unknown ticker reported against a loaded index that holds entries
UnknownTickerReported ==
  /\ last.op = "get_etf_holdings"
  /\ last.adapter = ISHARES
  /\ ~last.result.ok
  /\ last.result.site = "ISharesScraper: ticker not found in iShares ETF index"
  /\ DOMAIN _etf_index # {}

AdvisoryAdapters == {FIRSTTRUST, GLOBALX, SSGA, PACER, INVESCO}

KNOWN_TICKERS(adapter) ==
  CASE adapter = FIRSTTRUST -> FirstTrust_KNOWN_TICKERS
    [] adapter = GLOBALX -> GlobalX_KNOWN_TICKERS
    [] adapter = SSGA -> SSGA_KNOWN_TICKERS
    [] adapter = PACER -> Pacer_KNOWN_TICKERS
    [] adapter = INVESCO -> Invesco_KNOWN_TICKERS

advisory_get_holdings(adapter, ticker, env) ==
  CASE adapter = FIRSTTRUST -> FirstTrustScraper_get_holdings(ticker, NONE, env.doc)
    [] adapter = GLOBALX -> GlobalXScraper_get_holdings(ticker, NONE, env.page, env.doc)
    [] adapter = SSGA -> SSGAScraper_get_holdings(ticker, NONE, env.doc)
    [] adapter = PACER -> PacerScraper_get_holdings(ticker, NONE, env.doc)
    [] adapter = INVESCO -> InvescoScraper_get_holdings(ticker, NONE, env.doc)

AdvisoryEnvs(adapter) ==
  IF adapter = PACER THEN Envs({NoListing}, {NO_ANSWER}, PacerDocs)
  ELSE EnvsFor(adapter, FALSE)

\* two outcomes that differ at most in the ticker they carry
same_but_ticker(a, b) ==
  /\ Len(a.fetches) = Len(b.fetches)
  /\ a.result.ok = b.result.ok
  /\ a.result.exc = b.result.exc
  /\ a.result.site = b.result.site
  /\ Len(a.result.df.rows) = Len(b.result.df.rows)
  /\ \A i \in DOMAIN a.result.df.rows :
       Tail(a.result.df.rows[i]) = Tail(b.result.df.rows[i])

\* C10: First Trust, Global X, SSGA, Pacer and Invesco never refuse a ticker
\* for being outside KNOWN_TICKERS: the request is made all the same, and
\* under the same answers the outcome is that of a listed ticker.
AdvisoryListNeverGates ==
  /\ (HoldingsCall /\ last.adapter \in AdvisoryAdapters
        /\ ~is_supported(last.ticker, KNOWN_TICKERS(last.adapter))) =>
       /\ last.fetches # <<>>
       /\ Len(last.statuses) = Len(last.fetches)
  /\ (pc = "idle" /\ last = NoCall) =>
       \A adapter \in AdvisoryAdapters, ticker \in TickerInputs :
         ~is_supported(ticker, KNOWN_TICKERS(adapter)) =>
           \A env \in AdvisoryEnvs(adapter) :
             same_but_ticker(advisory_get_holdings(adapter, ticker, env),
                             advisory_get_holdings(adapter, KNOWN_TICKERS(adapter)[1], env))

\* a ticker Pacer does not list, fetched and parsed all the same
UnlistedTickerFetched ==
  /\ last.op = "get_holdings"
  /\ last.adapter = PACER
  /\ ~is_supported(last.ticker, KNOWN_TICKERS(PACER))
  /\ last.result.ok
  /\ last.result.df.rows # <<>>


(***************************************************************************)
(* Properties of the format parsers (ParseSpec) and of the transport.      *)
(***************************************************************************)
\* the call held in `last` is a get_etf_holdings whose download came back
\* with status 200
Downloaded200 ==
  /\ last.op = "get_etf_holdings"
  /\ last.fetches # <<>>
  /\ last.statuses[Len(last.statuses)] = 200
  /\ answered.doc.status = 200

\* the header test the adapter applies to the rows of a fetched file
IsHeaderFor(adapter, doc, row) ==
  CASE adapter = ISHARES -> ishares_is_header(row)
    [] adapter = SSGA -> ssga_is_header(row)
    [] adapter = VANECK ->
         IF is_spreadsheet(doc.ctype) THEN vaneck_excel_is_header(row)
         ELSE vaneck_csv_is_header(row)
    [] OTHER -> FALSE

DiscoveringAdapters == {ISHARES, SSGA, VANECK}

NoHeaderRow(adapter, doc) ==
  \A i \in DOMAIN doc.lines : ~IsHeaderFor(adapter, doc, doc.lines[i])

\* the failure the adapters raise for content they cannot reduce to the
\* three columns: a ValueError (pandas' EmptyDataError is one)
ParseFailure(result) ==
  ~result.ok /\ result.exc \in {"ValueError", "EmptyDataError"}

\* C11: when no row of the fetched content has the header tokens the adapter
\* looks for, get_holdings fails with ParseFailure; no other row is taken as
\* the header.
HeaderlessContentRefused ==
  (Downloaded200 /\ last.adapter \in DiscoveringAdapters
     /\ NoHeaderRow(last.adapter, answered.doc))
    => ParseFailure(last.result)

\* the header row of the claim: Ticker, Name, Weight (%)
StdHeader == <<Txt("Ticker"), Txt("Name"), Txt("Weight (%)")>>

HeaderIndex(lines) ==
  CHOOSE i \in DOMAIN lines :
    lines[i] = StdHeader /\ \A h \in 1..(i - 1) : lines[h] # StdHeader

IsFooter(line) == line # <<>> /\ line[1].k = "str" /\ line[1].s = "The content"

\* k metadata rows, the header row, data rows with plain numbers as weights
\* and a footer row
MetadataThenHeader(lines) ==
  /\ \E i \in DOMAIN lines : lines[i] = StdHeader
  /\ HeaderIndex(lines) - 1 \in MetaCounts
  /\ \A h \in 1..(HeaderIndex(lines) - 1) : lines[h] = MetaRow(h)
  /\ IsFooter(lines[Len(lines)])
  /\ \A i \in (HeaderIndex(lines) + 1)..(Len(lines) - 1) :
       Len(lines[i]) = 3 /\ lines[i][3].k = "num"

\* the records of the data rows: fund ticker, the row's ticker, its weight
DataRecords(lines, ticker) ==
  [i \in 1..(Len(lines) - HeaderIndex(lines) - 1) |->
     <<ticker, lines[HeaderIndex(lines) + i][1], lines[HeaderIndex(lines) + i][3]>>]

HeaderFindingAdapters == {ISHARES, GLOBALX, VANECK}

\* C12: for content made of k metadata rows (k in {0, 1, 2, 5}), the header
\* row Ticker, Name, Weight (%), data rows and a footer row "The content",
\* the call succeeds and its result is exactly the data rows: no metadata
\* row, no footer row.
HeaderFoundBelowMetadata ==
  (Downloaded200 /\ last.adapter \in HeaderFindingAdapters
     /\ MetadataThenHeader(answered.doc.lines))
    => /\ last.result.ok
       /\ last.result.df.rows = DataRecords(answered.doc.lines, upper(last.ticker))

\* the header row of the Global X files: % of Net Assets, Ticker, Name
NetAssetsHeader == <<Txt("% of Net Assets"), Txt("Ticker"), Txt("Name")>>

\* the file has `header` as its row k + 1 below k metadata rows, then data
\* rows, then at most a footer row
HeaderBelow(lines, header, k) ==
  /\ Len(lines) > k
  /\ lines[k + 1] = header
  /\ \A h \in 1..k : lines[h] = MetaRow(h)
  /\ \A i \in (k + 2)..(Len(lines) - 1) : ~IsFooter(lines[i])

DataLines(lines, k) ==
  SelectSeq(SubSeq(lines, k + 2, Len(lines)), LAMBDA l : ~IsFooter(l))

\* a weight cell that is a number, or a number with a per cent sign and
\* blanks around it
Numeric(c) == c.k \in {"num", "pct"}

\* the data rows whose weight is such a cell, each with that number as its
\* weight; tpos and wpos are the columns of the ticker and of the weight
Coerced(lines, k, tpos, wpos, ticker) ==
  LET kept == SelectSeq(DataLines(lines, k), LAMBDA l : Numeric(l[wpos])) IN
  [i \in DOMAIN kept |-> <<ticker, kept[i][tpos], Num(kept[i][wpos].n)>>]

\* the layout each adapter is made for, with a footer it recognises
WellFormedFor(adapter, lines, k) ==
  CASE adapter = GLOBALX -> k = 2 /\ HeaderBelow(lines, NetAssetsHeader, k)
    [] adapter = VANECK -> HeaderBelow(lines, StdHeader, k)
    [] adapter = ISHARES ->
         /\ HeaderBelow(lines, StdHeader, k)
         /\ IsFooter(lines[Len(lines)]) => lines[Len(lines)][1].n = 1
    [] OTHER -> FALSE

TickerColumn(adapter) == IF adapter = GLOBALX THEN 2 ELSE 1

WeightColumn(adapter) == IF adapter = GLOBALX THEN 1 ELSE 3

CoercingAdapters == {VANECK, GLOBALX, ISHARES}

\* C13: a weight cell that is a number, with or without a per cent sign and
\* blanks, comes out as that number; a row whose weight is not a number
\* ("N/A") is dropped, the call still succeeds and the other rows are kept.
WeightsCoerced ==
  \A k \in MetaCounts :
    (Downloaded200 /\ last.adapter \in CoercingAdapters
       /\ WellFormedFor(last.adapter, answered.doc.lines, k))
      => /\ last.result.ok
         /\ last.result.df.rows =
              Coerced(answered.doc.lines, k, TickerColumn(last.adapter),
                      WeightColumn(last.adapter), upper(last.ticker))

\* C14: the normalizer applied to a table that is already in the normalized
\* three-column form, for the same ticker, succeeds and returns a table
\* equal to its input.
NormaliseIdempotent ==
  last.op = "_normalise" => (last.result.ok /\ last.result.df = answered)

\* C15: a file whose header is found but none of whose data rows has a
\* numeric weight makes get_holdings fail with ParseFailure; a successful
\* call never returns an empty result.
EmptyResultRefused ==
  /\ (last.op = "get_etf_holdings" /\ last.result.ok) => last.result.df.rows # <<>>
  /\ \A k \in MetaCounts :
       (Downloaded200 /\ last.adapter \in CoercingAdapters
          /\ WellFormedFor(last.adapter, answered.doc.lines, k)
          /\ \A i \in DOMAIN DataLines(answered.doc.lines, k) :
               ~Numeric(DataLines(answered.doc.lines, k)[i][WeightColumn(last.adapter)]))
         => ParseFailure(last.result)


\* a status on which the listing fetch is re-attempted, or no answer at all
Transient(status) == status = 0 \/ status \in Retry_status_forcelist

\* a status that makes a request fail
Failing(status) == status = 0 \/ status >= 400

\* the calls that go through an adapter and record their requests
RecordsRequests == last.op \notin {"none", "_normalise"}

\* C16: only the iShares listing fetch is re-attempted: on a transient
\* status (429, 500, 502, 503, 504) or a failed connection, at most
\* Retry_total times, and its failure surfaces only when the re-attempts are
\* used up or the status is not transient; every other request of every
\* adapter is attempted once and its first failure ends the call.
RetryOnlyOnListing ==
  RecordsRequests =>
    \A i \in DOMAIN last.fetches :
      LET f == last.fetches[i] IN
      IF f.via = "session"
        THEN /\ last.adapter = ISHARES
             /\ f.attempts \in 1..(Retry_total + 1)
             /\ \A j \in 1..(f.attempts - 1) : Transient(answered.listing[j].status)
             /\ Transient(last.statuses[i]) =>
                  (f.attempts = Retry_total + 1 /\ ~last.result.ok)
             /\ Failing(last.statuses[i]) => (~last.result.ok /\ i = Len(last.fetches))
        ELSE /\ f.attempts = 1
             /\ Failing(last.statuses[i]) => (~last.result.ok /\ i = Len(last.fetches))

\* the listing came on the last re-attempt and the holdings download, tried
\* once, failed with a transient status
ListingRetriedDownloadNot ==
  /\ last.op = "get_etf_holdings"
  /\ last.adapter = ISHARES
  /\ Len(last.fetches) = 2
  /\ last.fetches[1].via = "session"
  /\ last.fetches[1].attempts = Retry_total + 1
  /\ last.statuses[1] = 200
  /\ last.fetches[2].attempts = 1
  /\ last.statuses[2] = 500
  /\ ~last.result.ok

\* the adapters that take an as_of_date and have no use for it
UndatedAdapters == Range(SCRAPER_REGISTRY_KEYS) \ {ISHARES}

\* the call that was made, made again with another as_of_date against the
\* same answers
Redated(as_of_date) ==
  IF last.op = "get_holdings"
    THEN PacerScraper_get_holdings(last.ticker, as_of_date, answered.doc)
    ELSE get_etf_holdings(cls, last.ticker, last.issuer, as_of_date, answered)

\* C17: for every adapter other than iShares the same call with any other
\* as_of_date, answered the same way, issues the same requests and gives the
\* same result; no request of the batch carries a date.
AsOfDateIgnoredElsewhere ==
  /\ ( \/ (last.op = "get_etf_holdings" /\ last.adapter \in UndatedAdapters)
       \/ last.op = "get_holdings" )
       => \A as_of_date \in AsOfInputs :
            /\ Redated(as_of_date).fetches = last.fetches
            /\ Redated(as_of_date).result = last.result
  /\ \A i \in DOMAIN row_log :
       \A j \in DOMAIN row_log[i].fetches : row_log[i].fetches[j].as_of = NONE

\* a call with a date on an adapter other than iShares that returned holdings
DatedCallElsewhereReturned ==
  /\ last.op = "get_etf_holdings"
  /\ last.adapter \in UndatedAdapters
  /\ truthy(last.as_of_date)
  /\ Len(last.fetches) >= 1
  /\ last.result.ok

\* the exceptions of the transport: requests' ConnectionError (a timeout is
\* one of its kind here), HTTPError and RetryError
TransportFailure(result) ==
  ~result.ok /\ result.exc \in {"ConnectionError", "HTTPError", "RetryError"}

\* C18: every request of every registered adapter carries a timeout, and a
\* request that gets no answer ends the call with a TransportFailure.
EveryFetchTimed ==
  /\ RecordsRequests =>
       \A i \in DOMAIN last.fetches :
         /\ last.fetches[i].timeout > 0
         /\ last.statuses[i] = 0 => TransportFailure(last.result)
  /\ \A i \in DOMAIN row_log :
       \A j \in DOMAIN row_log[i].fetches : row_log[i].fetches[j].timeout > 0

\* the places of a page text where a holdings link stands
HoldingsLinks(text) == { i \in DOMAIN text : HOLDINGS_LINK_PATTERN_matches(text[i]) }

FirstHoldingsLink(text) ==
  text[CHOOSE i \in HoldingsLinks(text) : \A h \in HoldingsLinks(text) : i <= h]

\* the fund page came with a status that is neither 404 nor a failure
PageCame(page) == page.status # 0 /\ page.status < 400

\* C19: Global X get_holdings fetches the fund page first and at most one
\* more thing; the CSV is fetched only when the page came and holds a
\* holdings link, and it is the first such link; a 404 page ends the call
\* with "fund page not found" and a page without a link with "could not find
\* holdings CSV link", both after the one fetch.
GlobalXPageThenLink ==
  (last.op = "get_etf_holdings" /\ last.adapter = GLOBALX) =>
    LET page == answered.page IN
    /\ Len(last.fetches) \in 1..2
    /\ last.fetches[1].url = "GlobalXScraper.FUND_PAGE_URL"
    /\ last.fetches[1].ticker = upper(last.ticker)
    /\ Len(last.fetches) = 2 <=> (PageCame(page) /\ HoldingsLinks(page.text) # {})
    /\ Len(last.fetches) = 2 =>
         /\ last.fetches[2].url = "csv_url"
         /\ last.fetches[2].id = FirstHoldingsLink(page.text)
    /\ page.status = 404 =>
         last.result = Raised("ValueError", "GlobalXScraper: fund page not found (404)", <<>>)
    /\ (PageCame(page) /\ HoldingsLinks(page.text) = {}) =>
         last.result = Raised("ValueError",
                              "GlobalXScraper: could not find holdings CSV link", <<>>)

\* the page held two holdings links and the CSV behind the first was parsed
FirstOfTwoLinksFetched ==
  /\ last.op = "get_etf_holdings"
  /\ last.adapter = GLOBALX
  /\ Cardinality(HoldingsLinks(answered.page.text)) = 2
  /\ Len(last.fetches) = 2
  /\ last.result.ok

\* C20: the index cache apart, no call changes state that another call sees:
\* the class-level session of ISharesScraper stays as it was.
OnlyIndexCacheShared == [][_session' = _session]_vars

\* the data rows of a well-formed file whose weight is a number
NumericLines(lines, k, wpos) ==
  SelectSeq(DataLines(lines, k), LAMBDA l : Numeric(l[wpos]))

\* C21: every record of a successful result has a number as its weight, and
\* the records are the source data rows with a numeric weight, one for one
\* and in the order of the source.
RecordsAreNumericRowsInOrder ==
  /\ (last.op = "get_etf_holdings" /\ last.result.ok) =>
       \A i \in DOMAIN last.result.df.rows : last.result.df.rows[i][3].k = "num"
  /\ \A k \in MetaCounts :
       (Downloaded200 /\ last.result.ok /\ last.adapter \in CoercingAdapters
          /\ WellFormedFor(last.adapter, answered.doc.lines, k))
         => LET kept == NumericLines(answered.doc.lines, k, WeightColumn(last.adapter))
                rows == last.result.df.rows
            IN /\ Len(rows) = Len(kept)
               /\ \A i \in DOMAIN rows : rows[i][2] = kept[i][TickerColumn(last.adapter)]

\* the portfolio rows processed so far whose try block went through
OkRows == { i \in DOMAIN row_log : row_log[i].ok }

\* the portfolio row the h-th appended frame came from
RowOfFrame(h) == CHOOSE i \in OkRows : Cardinality({ j \in OkRows : j <= i }) = h

\* C22: every portfolio row that was processed with success has its frame
\* in the batch's list, the frame has at least one record, and each of its
\* records, OTHER included, carries the row's ticker in upper case.
RowRecordsShareFundTicker ==
  /\ Len(holdings) = Cardinality(OkRows)
  /\ \A h \in DOMAIN holdings :
       /\ holdings[h].rows # <<>>
       /\ \A i \in DOMAIN holdings[h].rows :
            holdings[h].rows[i][1] = upper(portfolio[RowOfFrame(h)].ticker)

\* the calls that end in ISharesScraper._fetch_etf_index
ISharesIndexCall ==
  /\ last.adapter = ISHARES
  /\ last.op \in {"get_etf_holdings", "get_supported_tickers", "is_supported"}

\* the call held in `last` made a listing fetch and it failed
ListingFetchFailed ==
  /\ ISharesIndexCall
  /\ last.fetches # <<>>
  /\ last.fetches[1].via = "session"
  /\ Failing(last.statuses[1])

\* C23: a listing fetch that fails ends the call with the error of the
\* transport and leaves the cache unloaded; an unloaded cache has an empty
\* index; a call made while the cache is unloaded fetches the listing, so a
\* call without a listing fetch means the cache is loaded.
FailedLoadLeavesUnloaded ==
  /\ ~_index_loaded => DOMAIN _etf_index = {}
  /\ ListingFetchFailed =>
       /\ TransportFailure(last.result)
       /\ Len(last.fetches) = 1
       /\ ~_index_loaded
       /\ last.tickers = <<>>
  /\ (ISharesIndexCall /\ listing_requests(last.fetches) = <<>>) => _index_loaded

\* the listing answered 503, 503, 503, 504: the call failed after the last
\* re-attempt and nothing is loaded
ListingFailedAfterRetries ==
  /\ ListingFetchFailed
  /\ last.fetches[1].attempts = Retry_total + 1
  /\ last.statuses[1] = 504
  /\ ~_index_loaded
  /\ listing_loads = 0

\* the call held in `last` fetched the listing page and filled the index
\* from it
IndexJustLoaded ==
  /\ ISharesIndexCall
  /\ last.fetches # <<>>
  /\ last.fetches[1].via = "session"
  /\ last.statuses[1] = 200

\* the links of the listing page that call was answered with
LoadedLinks == answered.listing[last.fetches[1].attempts].links

\* C24: every entry of the index comes from a link of the listing page
\* whose target matches the product pattern and whose visible text is, as
\* it stands, 1 to 5 upper-case letters: the key is that text and the entry
\* holds the id and the slug of that link.
OnlyTickerTextRecorded ==
  IndexJustLoaded =>
    \A t \in DOMAIN _etf_index :
      \E i \in DOMAIN LoadedLinks :
        /\ product_pattern_search(LoadedLinks[i].href).matched
        /\ looks_like_ticker(strip(LoadedLinks[i].text))
        /\ strip(LoadedLinks[i].text) = t
        /\ _etf_index[t] =
             [product_id |-> product_pattern_search(LoadedLinks[i].href).product_id,
              slug |-> product_pattern_search(LoadedLinks[i].href).slug]
====
